---- MODULE Spec2Model ----
(***************************************************************************)
(* A model of scqubits' Cos2PhiQubit (src/scqubits/core/cos2phi_qubit.py)  *)
(* and of the elementary operators it uses (src/scqubits/core/operators.py)*)
(*                                                                         *)
(* Numbers.  The program computes with floats; the model computes with     *)
(* exact rationals <<n, d>> (d > 0, lowest terms).  The irrational scalars *)
(* the program uses (pi, the plasma frequencies sqrt(...)) are carried as  *)
(* a symbolic factor of a monomial.                                        *)
(*                                                                         *)
(* Operators.  A matrix on one subspace is a formal linear combination of  *)
(* the program's single-subspace operators (the atoms "phi", "n_phi",      *)
(* "cos_phi", ... : what _phi_operator(), _n_phi_operator(), ... return).  *)
(* A matrix on the full space is a formal linear combination of Kronecker  *)
(* products atom (x) atom (x) atom, in the order (phi, zeta, theta).       *)
(***************************************************************************)
EXTENDS Integers, Sequences, FiniteSets, TLC

VARIABLES params, removed, updates, call, ret

vars == <<params, removed, updates, call, ret>>

---------------------------------------------------------------------------
(* Exact rational arithmetic (the program's float arithmetic, idealised).  *)

Abs(x) == IF x < 0 THEN -x ELSE x

RECURSIVE GCD(_, _)
GCD(a, b) == IF b = 0 THEN a ELSE GCD(b, a % b)

Rat(n, d) ==
    LET s == IF d < 0 THEN -1 ELSE 1
        g == GCD(Abs(n), Abs(d))
    IN  <<(s * n) \div g, (s * d) \div g>>

R(n) == <<n, 1>>

RAdd(a, b) == Rat(a[1] * b[2] + b[1] * a[2], a[2] * b[2])
RNeg(a) == <<-a[1], a[2]>>
RSub(a, b) == RAdd(a, RNeg(b))
RMul(a, b) == Rat(a[1] * b[1], a[2] * b[2])
RDiv(a, b) == Rat(a[1] * b[2], a[2] * b[1])
RInv(a) == RDiv(R(1), a)
RIsZero(a) == a[1] = 0

(* cos(f*pi) and sin(f*pi) for a flux f that is a multiple of 1/2: the     *)
(* values np.cos(self.flux * np.pi), np.sin(self.flux * np.pi) take there. *)
QuarterTurns(f) == (f[1] * (2 \div f[2])) % 4
CosPi(f) == R(<<1, 0, -1, 0>>[QuarterTurns(f) + 1])
SinPi(f) == R(<<0, 1, 0, -1>>[QuarterTurns(f) + 1])

---------------------------------------------------------------------------
(* Symbolic scalar factors of a monomial.                                  *)

One == <<"one", R(1)>>
Pi == <<"pi", R(1)>>
Sqrt(r) == <<"sqrt", r>>
SymUndefined == <<"undefined", R(0)>>

SymMul(s, t) == IF s = One THEN t ELSE IF t = One THEN s ELSE SymUndefined

(* Product of two atoms of the same subspace.                              *)
AtomMul(x, y) == IF x = "I" THEN y ELSE IF y = "I" THEN x ELSE x \o "." \o y

---------------------------------------------------------------------------
(* Formal matrices: [dim |-> n, terms |-> [monomial -> nonzero rational]]. *)
(* A monomial of a one-subspace matrix is <<sym, atom>>, of a full-space   *)
(* matrix <<sym, phi atom, zeta atom, theta atom>>.                        *)

Coef(A, m) == IF m \in DOMAIN A.terms THEN A.terms[m] ELSE R(0)

Normal(dim, f) ==
    [dim |-> dim,
     terms |-> [m \in {x \in DOMAIN f : ~RIsZero(f[x])} |-> f[m]]]

Atom(dim, a) == [dim |-> dim, terms |-> [m \in {<<One, a>>} |-> R(1)]]

OpAdd(A, B) ==
    Normal(A.dim,
           [m \in (DOMAIN A.terms) \cup (DOMAIN B.terms) |->
               RAdd(Coef(A, m), Coef(B, m))])

OpScale(c, A) == Normal(A.dim, [m \in DOMAIN A.terms |-> RMul(c, A.terms[m])])

OpNeg(A) == OpScale(R(-1), A)

OpSub(A, B) == OpAdd(A, OpNeg(B))

(* Multiplication of a matrix by an irrational scalar (np.pi, a plasma     *)
(* frequency): the scalar becomes the symbolic factor of every monomial.   *)
OpTimesSym(s, A) ==
    LET D == DOMAIN A.terms
        Put(m) == [m EXCEPT ![1] = SymMul(s, m[1])]
    IN  [dim |-> A.dim,
         terms |-> [n \in {Put(m) : m \in D} |->
                       A.terms[CHOOSE m \in D : Put(m) = n]]]

RECURSIVE RSum(_, _)
RSum(S, f) ==
    IF S = {} THEN R(0)
    ELSE LET x == CHOOSE y \in S : TRUE
         IN  RAdd(f[x], RSum(S \ {x}, f))

(* Matrix product of two full-space matrices.                              *)
MonoMul(m, n) ==
    <<SymMul(m[1], n[1]), AtomMul(m[2], n[2]), AtomMul(m[3], n[3]),
      AtomMul(m[4], n[4])>>

OpMul(A, B) ==
    LET Pairs == (DOMAIN A.terms) \X (DOMAIN B.terms)
        Prod == [pr \in Pairs |-> RMul(A.terms[pr[1]], B.terms[pr[2]])]
        Monos == {MonoMul(pr[1], pr[2]) : pr \in Pairs}
    IN  Normal(A.dim,
               [m \in Monos |->
                   RSum({pr \in Pairs : MonoMul(pr[1], pr[2]) = m}, Prod)])

---------------------------------------------------------------------------
(* QubitParameters: the record of the qubit's WatchedProperty fields.      *)

(* The defaults with the zeta basis of another size.                       *)
default_params_zeta_20 ==
    [EJ |-> R(15), ECJ |-> R(2), EL |-> R(1), EC |-> Rat(1, 25),
     dCJ |-> R(0), dL |-> Rat(3, 5), dEJ |-> R(0), flux |-> Rat(1, 2),
     ng |-> R(0), ncut |-> 7, zeta_cut |-> 20, phi_cut |-> 7]

default_params ==
    [EJ |-> R(15), ECJ |-> R(2), EL |-> R(1), EC |-> Rat(1, 25),
     dCJ |-> R(0), dL |-> Rat(3, 5), dEJ |-> R(0), flux |-> Rat(1, 2),
     ng |-> R(0), ncut |-> 7, zeta_cut |-> 30, phi_cut |-> 7]

(* __init__: the keyword arguments, truncated_dim defaulting to 6.         *)
InitDefaultTruncatedDim == 6

Construct(kw) ==
    [EJ |-> kw.EJ, ECJ |-> kw.ECJ, EL |-> kw.EL, EC |-> kw.EC,
     dL |-> kw.dL, dCJ |-> kw.dCJ, dEJ |-> kw.dEJ, flux |-> kw.flux,
     ng |-> kw.ng, ncut |-> kw.ncut, zeta_cut |-> kw.zeta_cut,
     phi_cut |-> kw.phi_cut,
     truncated_dim |-> IF "truncated_dim" \in DOMAIN kw
                       THEN kw.truncated_dim ELSE InitDefaultTruncatedDim]

(* The list with its last entry lost.                                      *)
supported_noise_channels_short ==
    <<"tphi_1_over_f_cc", "tphi_1_over_f_flux", "tphi_1_over_f_ng",
      "t1_capacitive", "t1_inductive">>

supported_noise_channels ==
    <<"tphi_1_over_f_cc", "tphi_1_over_f_flux", "tphi_1_over_f_ng",
      "t1_capacitive", "t1_inductive", "t1_purcell">>

_dim_phi(p) == p.phi_cut
_dim_zeta(p) == p.zeta_cut
(* The charge basis without the state of charge zero.                      *)
_dim_theta_even(p) == 2 * p.ncut
_dim_theta(p) == 2 * p.ncut + 1
hilbertdim(p) == _dim_phi(p) * _dim_zeta(p) * _dim_theta(p)

_disordered_el(p) == RDiv(p.EL, RSub(R(1), RMul(p.dL, p.dL)))
_disordered_ecj(p) == RDiv(p.ECJ, RSub(R(1), RMul(p.dCJ, p.dCJ)))

(* math.sqrt(8.0 * EL' * ECJ') and math.sqrt(16.0 * EC * EL'), symbolic.   *)
phi_plasma(p) == Sqrt(RMul(R(8), RMul(_disordered_el(p), _disordered_ecj(p))))
zeta_plasma(p) == Sqrt(RMul(R(16), RMul(p.EC, _disordered_el(p))))

---------------------------------------------------------------------------
(* operators.py: number_sparse.  "if prefactor:" skips the scaling for a   *)
(* prefactor that is None or zero.                                         *)

number_sparse(dimension, prefactor) ==
    IF RIsZero(prefactor[2])
    THEN Atom(dimension, "num")
    ELSE OpTimesSym(prefactor, Atom(dimension, "num"))

---------------------------------------------------------------------------
(* Single-subspace operators.                                              *)

_phi_operator(p) == Atom(_dim_phi(p), "phi")
_n_phi_operator(p) == Atom(_dim_phi(p), "n_phi")
_zeta_operator(p) == Atom(_dim_zeta(p), "zeta")
_n_zeta_operator(p) == Atom(_dim_zeta(p), "n_zeta")
_cos_phi_operator(p) == Atom(_dim_phi(p), "cos_phi")
_sin_phi_operator(p) == Atom(_dim_phi(p), "sin_phi")
_n_theta_operator(p) == Atom(_dim_theta(p), "n_theta")
_cos_theta_operator(p) == Atom(_dim_theta(p), "cos_theta")
_sin_theta_operator(p) == Atom(_dim_theta(p), "sin_theta")
_identity_phi(p) == Atom(_dim_phi(p), "I")
_identity_zeta(p) == Atom(_dim_zeta(p), "I")
_identity_theta(p) == Atom(_dim_theta(p), "I")

(* sparse.kron(sparse.kron(mat1, mat2), mat3)                              *)
_kron3(mat1, mat2, mat3) ==
    LET Trip == (DOMAIN mat1.terms) \X (DOMAIN mat2.terms) \X (DOMAIN mat3.terms)
        Mono(t) == <<SymMul(SymMul(t[1][1], t[2][1]), t[3][1]),
                     t[1][2], t[2][2], t[3][2]>>
        Prod == [t \in Trip |->
                    RMul(RMul(mat1.terms[t[1]], mat2.terms[t[2]]),
                         mat3.terms[t[3]])]
    IN  Normal(mat1.dim * mat2.dim * mat3.dim,
               [m \in {Mono(t) : t \in Trip} |->
                   RSum({t \in Trip : Mono(t) = m}, Prod)])

total_identity(p) == _kron3(_identity_phi(p), _identity_zeta(p), _identity_theta(p))

---------------------------------------------------------------------------
(* The entries of the single-subspace operators.  A matrix on one subspace *)
(* is a combination, with complex coefficients <<re, im>>, of the          *)
(* elementary matrices the program builds it from: "a" (the annihilation   *)
(* matrix), "ad" (its transpose), "E" = expm(i phi) and "Ed" (its          *)
(* conjugate transpose), "U" and "L" (ones on the first upper and lower    *)
(* diagonal), "num", "n" (real diagonals) and "I".  The positive real      *)
(* factors phi_osc()/sqrt(2), zeta_osc()/sqrt(2) are left out.             *)

CReal(r) == <<r, R(0)>>
CMul(x, y) ==
    <<RSub(RMul(x[1], y[1]), RMul(x[2], y[2])),
      RAdd(RMul(x[1], y[2]), RMul(x[2], y[1]))>>
CConj(x) == <<x[1], RNeg(x[2])>>
CAdd(x, y) == <<RAdd(x[1], y[1]), RAdd(x[2], y[2])>>
CImag == <<R(0), R(1)>>

Elementary(q) == [r \in {q} |-> CReal(R(1))]
MatCoef(M, q) == IF q \in DOMAIN M THEN M[q] ELSE CReal(R(0))
MatScale(c, M) == [q \in DOMAIN M |-> CMul(c, M[q])]
MatAdd(M, N) ==
    LET sum == [q \in DOMAIN M \cup DOMAIN N |-> CAdd(MatCoef(M, q), MatCoef(N, q))]
    IN  [q \in {r \in DOMAIN sum : sum[r] # CReal(R(0))} |-> sum[q]]
MatSub(M, N) == MatAdd(M, MatScale(CReal(R(-1)), N))

(* The transpose of an elementary matrix, and .conj().T of a matrix.       *)
Transposed(q) ==
    CASE q = "a" -> "ad" [] q = "ad" -> "a" [] q = "E" -> "Ed" [] q = "Ed" -> "E"
      [] q = "U" -> "L" [] q = "L" -> "U" [] OTHER -> q
ConjT(M) == [q \in {Transposed(r) : r \in DOMAIN M} |-> CConj(M[Transposed(q)])]

annihilation_sparse == Elementary("a")
creation_sparse == [q \in {Transposed(r) : r \in DOMAIN annihilation_sparse} |->
                       annihilation_sparse[Transposed(q)]]

(* (creation + annihilation) * osc / sqrt(2): phi and zeta                 *)
_phi_matrix == MatAdd(creation_sparse, annihilation_sparse)
(* 1j * (creation - annihilation) / (osc * sqrt(2)): n_phi and n_zeta      *)
_n_phi_matrix == MatScale(CImag, MatSub(creation_sparse, annihilation_sparse))
(* expm(1j * phi)                                                          *)
_exp_i_phi_matrix == Elementary("E")
(* cos_phi_op = 0.5 * exp_i_phi; cos_phi_op += cos_phi_op.conj().T         *)
_cos_phi_matrix ==
    LET cos_phi_op == MatScale(CReal(Rat(1, 2)), _exp_i_phi_matrix)
    IN  MatAdd(cos_phi_op, ConjT(cos_phi_op))
(* sin_phi_op = -1j * 0.5 * exp_i_phi; sin_phi_op += sin_phi_op.conj().T   *)
_sin_phi_matrix ==
    LET sin_phi_op ==
            MatScale(CMul(CMul(CReal(R(-1)), CImag), CReal(Rat(1, 2))),
                     _exp_i_phi_matrix)
    IN  MatAdd(sin_phi_op, ConjT(sin_phi_op))
(* 0.5 * dia(ones, [1]) + 0.5 * dia(ones, [-1])                            *)
_cos_theta_matrix ==
    MatAdd(MatScale(CReal(Rat(1, 2)), Elementary("U")),
           MatScale(CReal(Rat(1, 2)), Elementary("L")))

(* The sine without its factor -1j.                                        *)
_sin_theta_matrix_real ==
    MatSub(MatScale(CReal(Rat(1, 2)), Elementary("L")),
           MatScale(CReal(Rat(1, 2)), Elementary("U")))

(* (0.5 * dia(ones, [-1]) - 0.5 * dia(ones, [1])) * (-1j)                  *)
_sin_theta_matrix ==
    MatScale(CMul(CReal(R(-1)), CImag),
             MatSub(MatScale(CReal(Rat(1, 2)), Elementary("L")),
                    MatScale(CReal(Rat(1, 2)), Elementary("U"))))

(* The entries of the single-subspace operator an atom names.              *)
Matrix(a) ==
    CASE a \in {"phi", "zeta"} -> _phi_matrix
      [] a \in {"n_phi", "n_zeta"} -> _n_phi_matrix
      [] a = "cos_phi" -> _cos_phi_matrix
      [] a = "sin_phi" -> _sin_phi_matrix
      [] a = "cos_theta" -> _cos_theta_matrix
      [] a = "sin_theta" -> _sin_theta_matrix
      [] a = "n_theta" -> Elementary("n")
      [] a = "num" -> Elementary("num")
      [] a = "I" -> Elementary("I")

(* The factors of a product of single-subspace operators (a square).      *)
Factors(a) ==
    CASE a = "n_theta.n_theta" -> <<"n_theta", "n_theta">>
      [] a = "n_zeta.n_zeta" -> <<"n_zeta", "n_zeta">>
      [] OTHER -> <<a>>

---------------------------------------------------------------------------
(* The energy_esys argument: False, True, or a supplied (evals, evecs).    *)
(* An eigensystem is named by the number of eigenpairs it holds and the    *)
(* parameters of the Hamiltonian it was computed from.                     *)

EFalse == [kind |-> "False"]
ETrue == [kind |-> "True"]
EGiven(esys) == [kind |-> "esys", esys |-> esys]
Esys(evals_count, p) == [count |-> evals_count, at |-> p]
NoEsys == [count |-> 0]

(* What a call gives back: the exception it raised ("none": it returned),  *)
(* the value, and the calls it made to the collaborators (the eigensystem  *)
(* computation, the rate integrator), in order.                            *)
NoVal == [basis |-> "none"]
EigensysEvent(evals_count) == [ev |-> "eigensys", evals_count |-> evals_count]
Native(op) == [exc |-> "none", op |-> op, calcs |-> <<>>]
Raised(exc, calcs) == [exc |-> exc, val |-> NoVal, calcs |-> calcs]

(* QubitBaseClass.process_op: returns native_op for energy_esys False; for *)
(* True computes the eigensystem at truncated_dim and returns              *)
(* evecs^dagger native_op evecs; for a supplied pair projects onto it.     *)
process_op(p, native, energy_esys) ==
    IF native.exc # "none" THEN Raised(native.exc, native.calcs)
    ELSE CASE energy_esys.kind = "False" ->
                [exc |-> "none",
                 val |-> [basis |-> "native", op |-> native.op, esys |-> NoEsys,
                          shape |-> <<native.op.dim, native.op.dim>>],
                 calcs |-> native.calcs]
           [] energy_esys.kind = "True" ->
                [exc |-> "none",
                 val |-> [basis |-> "eigen", op |-> native.op,
                          esys |-> Esys(p.truncated_dim, p),
                          shape |-> <<p.truncated_dim, p.truncated_dim>>],
                 calcs |-> native.calcs \o <<EigensysEvent(p.truncated_dim)>>]
           [] energy_esys.kind = "esys" ->
                [exc |-> "none",
                 val |-> [basis |-> "eigen", op |-> native.op,
                          esys |-> energy_esys.esys,
                          shape |-> <<energy_esys.esys.count,
                                      energy_esys.esys.count>>],
                 calcs |-> native.calcs]

---------------------------------------------------------------------------
(* Operator accessors: the native operator, then process_op.               *)

phi_native(p) ==
    Native(_kron3(_phi_operator(p), _identity_zeta(p), _identity_theta(p)))
phi_operator(p, energy_esys) == process_op(p, phi_native(p), energy_esys)

n_phi_native(p) ==
    Native(_kron3(_n_phi_operator(p), _identity_zeta(p), _identity_theta(p)))
n_phi_operator(p, energy_esys) == process_op(p, n_phi_native(p), energy_esys)

zeta_native(p) ==
    Native(_kron3(_identity_phi(p), _zeta_operator(p), _identity_theta(p)))
zeta_operator(p, energy_esys) == process_op(p, zeta_native(p), energy_esys)

n_zeta_native(p) ==
    Native(_kron3(_identity_phi(p), _n_zeta_operator(p), _identity_theta(p)))
n_zeta_operator(p, energy_esys) == process_op(p, n_zeta_native(p), energy_esys)

n_theta_native(p) ==
    Native(_kron3(_identity_phi(p), _identity_zeta(p), _n_theta_operator(p)))
n_theta_operator(p, energy_esys) == process_op(p, n_theta_native(p), energy_esys)

(* native = self.zeta_operator() - self.phi_operator()                     *)
phi_1_native(p) ==
    LET z == zeta_operator(p, EFalse)
        f == phi_operator(p, EFalse)
    IN  [exc |-> "none", op |-> OpSub(z.val.op, f.val.op),
         calcs |-> z.calcs \o f.calcs]
(* phi_1_operator reading energy_esys as a flag: a supplied pair counts    *)
(* as False.                                                               *)
phi_1_operator_flag(p, energy_esys) ==
    process_op(p, phi_1_native(p),
               IF energy_esys.kind = "True" THEN ETrue ELSE EFalse)
phi_1_operator(p, energy_esys) == process_op(p, phi_1_native(p), energy_esys)

(* phi_2 with the sign of zeta lost.                                       *)
phi_2_native_plus_zeta(p) ==
    LET z == zeta_operator(p, EFalse)
        f == phi_operator(p, EFalse)
    IN  [exc |-> "none", op |-> OpSub(z.val.op, f.val.op),
         calcs |-> z.calcs \o f.calcs]

(* native = -self.zeta_operator() - self.phi_operator()                    *)
phi_2_native(p) ==
    LET z == zeta_operator(p, EFalse)
        f == phi_operator(p, EFalse)
    IN  [exc |-> "none", op |-> OpSub(OpNeg(z.val.op), f.val.op),
         calcs |-> z.calcs \o f.calcs]
phi_2_operator(p, energy_esys) == process_op(p, phi_2_native(p), energy_esys)

(* native = 0.5 * n_phi + 0.5 * (n_theta - n_zeta)                         *)
n_1_native(p) ==
    LET nf == n_phi_operator(p, EFalse)
        nt == n_theta_operator(p, EFalse)
        nz == n_zeta_operator(p, EFalse)
    IN  [exc |-> "none",
         op |-> OpAdd(OpScale(Rat(1, 2), nf.val.op),
                      OpScale(Rat(1, 2), OpSub(nt.val.op, nz.val.op))),
         calcs |-> nf.calcs \o nt.calcs \o nz.calcs]
n_1_operator(p, energy_esys) == process_op(p, n_1_native(p), energy_esys)

(* n_2 with the sign of its second half lost.                              *)
n_2_native_plus(p) ==
    LET nf == n_phi_operator(p, EFalse)
        nt == n_theta_operator(p, EFalse)
        nz == n_zeta_operator(p, EFalse)
    IN  [exc |-> "none",
         op |-> OpAdd(OpScale(Rat(1, 2), nf.val.op),
                      OpScale(Rat(1, 2), OpSub(nt.val.op, nz.val.op))),
         calcs |-> nf.calcs \o nt.calcs \o nz.calcs]

(* native = 0.5 * n_phi - 0.5 * (n_theta - n_zeta)                         *)
n_2_native(p) ==
    LET nf == n_phi_operator(p, EFalse)
        nt == n_theta_operator(p, EFalse)
        nz == n_zeta_operator(p, EFalse)
    IN  [exc |-> "none",
         op |-> OpSub(OpScale(Rat(1, 2), nf.val.op),
                      OpScale(Rat(1, 2), OpSub(nt.val.op, nz.val.op))),
         calcs |-> nf.calcs \o nt.calcs \o nz.calcs]
n_2_operator(p, energy_esys) == process_op(p, n_2_native(p), energy_esys)

---------------------------------------------------------------------------
(* hamiltonian(): the seven terms, summed in the native basis.             *)

phi_osc_mat(p) ==
    _kron3(number_sparse(_dim_phi(p), phi_plasma(p)),
           _identity_zeta(p), _identity_theta(p))

zeta_osc_mat(p) ==
    _kron3(_identity_phi(p),
           number_sparse(_dim_zeta(p), zeta_plasma(p)), _identity_theta(p))

(* 2 * ECJ' * (n_theta - total_identity * ng - n_zeta) ** 2                *)
cross_kinetic_mat(p) ==
    LET nt == n_theta_operator(p, EFalse)
        nz == n_zeta_operator(p, EFalse)
        base == OpSub(OpSub(nt.val.op, OpScale(p.ng, total_identity(p))),
                      nz.val.op)
    IN  OpScale(RMul(R(2), _disordered_ecj(p)), OpMul(base, base))

(* -2 * EJ * kron3(cos_phi*cos(flux*pi) - sin_phi*sin(flux*pi), I,         *)
(*  cos_theta) + 2 * EJ * total_identity                                   *)
junction_mat(p) ==
    LET phi_flux_term ==
            OpSub(OpScale(CosPi(p.flux), _cos_phi_operator(p)),
                  OpScale(SinPi(p.flux), _sin_phi_operator(p)))
    IN  OpAdd(OpScale(RMul(R(-2), p.EJ),
                      _kron3(phi_flux_term, _identity_zeta(p),
                             _cos_theta_operator(p))),
              OpScale(RMul(R(2), p.EJ), total_identity(p)))

disorder_l(p) ==
    OpScale(RMul(RMul(R(-2), _disordered_el(p)), p.dL),
            _kron3(_phi_operator(p), _zeta_operator(p), _identity_theta(p)))

disorder_j(p) ==
    LET dis_phi_flux_term ==
            OpAdd(OpScale(CosPi(p.flux), _sin_phi_operator(p)),
                  OpScale(SinPi(p.flux), _cos_phi_operator(p)))
    IN  OpScale(RMul(RMul(R(2), p.EJ), p.dEJ),
                _kron3(dis_phi_flux_term, _identity_zeta(p),
                       _sin_theta_operator(p)))

disorder_c(p) ==
    LET nf == n_phi_operator(p, EFalse)
        dis_c_opt ==
            OpSub(OpSub(_kron3(_n_phi_operator(p), _identity_zeta(p),
                               _n_theta_operator(p)),
                        OpScale(p.ng, nf.val.op)),
                  _kron3(_n_phi_operator(p), _n_zeta_operator(p),
                         _identity_theta(p)))
    IN  OpScale(RMul(RMul(R(-4), _disordered_ecj(p)), p.dCJ), dis_c_opt)

hamiltonian_native(p) ==
    Native(OpAdd(OpAdd(OpAdd(OpAdd(OpAdd(OpAdd(phi_osc_mat(p),
                                               zeta_osc_mat(p)),
                                         cross_kinetic_mat(p)),
                                   junction_mat(p)),
                             disorder_l(p)),
                       disorder_j(p)),
                 disorder_c(p)))

(* QubitBaseClass.process_hamiltonian: the native Hamiltonian for False;   *)
(* for True the diagonal matrix of the truncated_dim eigenvalues computed  *)
(* internally; for a supplied pair evecs^dagger H evecs.                   *)
process_hamiltonian(p, native, energy_esys) ==
    IF native.exc = "none" /\ energy_esys.kind = "True"
    THEN [exc |-> "none",
          val |-> [basis |-> "eigen_diagonal", op |-> native.op,
                   esys |-> Esys(p.truncated_dim, p),
                   shape |-> <<p.truncated_dim, p.truncated_dim>>],
          calcs |-> native.calcs \o <<EigensysEvent(p.truncated_dim)>>]
    ELSE process_op(p, native, energy_esys)

(* hamiltonian() that does not hand energy_esys on.                        *)
hamiltonian_native_only(p, energy_esys) ==
    process_hamiltonian(p, hamiltonian_native(p), EFalse)

hamiltonian(p, energy_esys) ==
    process_hamiltonian(p, hamiltonian_native(p), energy_esys)

---------------------------------------------------------------------------
(* The eigenvalue problem: _evals_calc and _esys_calc.                     *)

RLess(a, b) == a[1] * b[2] < b[1] * a[2]

(* utils.eigsh_safe(matrix, k=, return_eigenvectors=, sigma=, which=): the *)
(* call, as the solver sees it.                                            *)
EigshEvent(matrix, k, return_eigenvectors, sigma, which) ==
    [ev |-> "eigsh_safe", matrix |-> matrix, k |-> k,
     return_eigenvectors |-> return_eigenvectors, sigma |-> sigma,
     which |-> which]

(* What the solver does: it raises, or it returns k eigenvalues in some    *)
(* order; column j of its eigenvector matrix (named j here) belongs to     *)
(* its j-th eigenvalue.                                                    *)
SolverRaises(exc) == [exc |-> exc, evals |-> <<>>, evecs |-> <<>>]
SolverReturns(evals) ==
    [exc |-> "none", evals |-> evals, evecs |-> [j \in 1..Len(evals) |-> j]]

(* evals.argsort(): position m holds the index of the m-th smallest.       *)
argsort(evals) ==
    LET Before(i, j) ==
            RLess(evals[i], evals[j]) \/ (evals[i] = evals[j] /\ i < j)
        Rank(j) == 1 + Cardinality({i \in 1..Len(evals) : Before(i, j)})
    IN  [m \in 1..Len(evals) |-> CHOOSE j \in 1..Len(evals) : Rank(j) = m]

(* np.sort(evals)                                                          *)
np_sort(evals) == [m \in 1..Len(evals) |-> evals[argsort(evals)[m]]]

(* utils.order_eigensystem(evals, evecs): evals sorted, the columns of     *)
(* evecs taken in the same order.                                          *)
order_eigensystem(evals, evecs) ==
    LET ordered_evals_indices == argsort(evals)
    IN  [evals |-> [m \in 1..Len(evals) |-> evals[ordered_evals_indices[m]]],
         evecs |-> [m \in 1..Len(evals) |-> evecs[ordered_evals_indices[m]]]]

(* _evals_calc giving an empty result when the solver fails.               *)
_evals_calc_fallback(p, evals_count, solver) ==
    LET hamiltonian_mat == hamiltonian(p, EFalse)
        event == EigshEvent(hamiltonian_mat.val, evals_count, FALSE, R(0), "LM")
    IN  [exc |-> "none",
         val |-> [basis |-> "evals", evals |-> np_sort(solver.evals)],
         calcs |-> hamiltonian_mat.calcs \o <<event>>]

_evals_calc(p, evals_count, solver) ==
    LET hamiltonian_mat == hamiltonian(p, EFalse)
        event == EigshEvent(hamiltonian_mat.val, evals_count, FALSE, R(0), "LM")
    IN  IF solver.exc # "none"
        THEN Raised(solver.exc, hamiltonian_mat.calcs \o <<event>>)
        ELSE [exc |-> "none",
              val |-> [basis |-> "evals", evals |-> np_sort(solver.evals)],
              calcs |-> hamiltonian_mat.calcs \o <<event>>]

(* _esys_calc returning the solver's result as it comes.                   *)
_esys_calc_unordered(p, evals_count, solver) ==
    LET hamiltonian_mat == hamiltonian(p, EFalse)
        event == EigshEvent(hamiltonian_mat.val, evals_count, TRUE, R(0), "LM")
    IN  IF solver.exc # "none"
        THEN Raised(solver.exc, hamiltonian_mat.calcs \o <<event>>)
        ELSE [exc |-> "none",
              val |-> [basis |-> "esys", evals |-> solver.evals,
                       evecs |-> solver.evecs],
              calcs |-> hamiltonian_mat.calcs \o <<event>>]

_esys_calc(p, evals_count, solver) ==
    LET hamiltonian_mat == hamiltonian(p, EFalse)
        event == EigshEvent(hamiltonian_mat.val, evals_count, TRUE, R(0), "LM")
        ordered == order_eigensystem(solver.evals, solver.evecs)
    IN  IF solver.exc # "none"
        THEN Raised(solver.exc, hamiltonian_mat.calcs \o <<event>>)
        ELSE [exc |-> "none",
              val |-> [basis |-> "esys", evals |-> ordered.evals,
                       evecs |-> ordered.evecs],
              calcs |-> hamiltonian_mat.calcs \o <<event>>]

---------------------------------------------------------------------------
(* Derivatives of the Hamiltonian.                                         *)

(* The flux derivative with the sign of the disorder term's sine lost.     *)
d_hamiltonian_d_flux_native_sign(p) ==
    LET phi_flux_term ==
            OpAdd(OpScale(CosPi(p.flux), _sin_phi_operator(p)),
                  OpScale(SinPi(p.flux), _cos_phi_operator(p)))
        junction ==
            OpTimesSym(Pi,
                OpScale(RMul(R(2), p.EJ),
                        _kron3(phi_flux_term, _identity_zeta(p),
                               _cos_theta_operator(p))))
        dis_phi_flux_term ==
            OpAdd(OpScale(CosPi(p.flux), _cos_phi_operator(p)),
                  OpScale(SinPi(p.flux), _sin_phi_operator(p)))
        dis_junction ==
            OpTimesSym(Pi,
                OpScale(RMul(RMul(R(2), p.dEJ), p.EJ),
                        _kron3(dis_phi_flux_term, _identity_zeta(p),
                               _sin_theta_operator(p))))
    IN  Native(OpAdd(junction, dis_junction))

d_hamiltonian_d_flux_native(p) ==
    LET phi_flux_term ==
            OpAdd(OpScale(CosPi(p.flux), _sin_phi_operator(p)),
                  OpScale(SinPi(p.flux), _cos_phi_operator(p)))
        junction ==
            OpTimesSym(Pi,
                OpScale(RMul(R(2), p.EJ),
                        _kron3(phi_flux_term, _identity_zeta(p),
                               _cos_theta_operator(p))))
        dis_phi_flux_term ==
            OpSub(OpScale(CosPi(p.flux), _cos_phi_operator(p)),
                  OpScale(SinPi(p.flux), _sin_phi_operator(p)))
        dis_junction ==
            OpTimesSym(Pi,
                OpScale(RMul(RMul(R(2), p.dEJ), p.EJ),
                        _kron3(dis_phi_flux_term, _identity_zeta(p),
                               _sin_theta_operator(p))))
    IN  Native(OpAdd(junction, dis_junction))
d_hamiltonian_d_flux(p, energy_esys) ==
    process_op(p, d_hamiltonian_d_flux_native(p), energy_esys)

d_hamiltonian_d_EJ_native(p) ==
    LET phi_flux_term ==
            OpSub(OpScale(CosPi(p.flux), _cos_phi_operator(p)),
                  OpScale(SinPi(p.flux), _sin_phi_operator(p)))
        junction ==
            OpScale(R(-2),
                    _kron3(phi_flux_term, _identity_zeta(p),
                           _cos_theta_operator(p)))
        dis_phi_flux_term ==
            OpAdd(OpScale(CosPi(p.flux), _sin_phi_operator(p)),
                  OpScale(SinPi(p.flux), _cos_phi_operator(p)))
        dis_junction ==
            OpScale(RMul(R(2), p.dEJ),
                    _kron3(dis_phi_flux_term, _identity_zeta(p),
                           _sin_theta_operator(p)))
    IN  Native(OpAdd(junction, dis_junction))
d_hamiltonian_d_EJ(p, energy_esys) ==
    process_op(p, d_hamiltonian_d_EJ_native(p), energy_esys)

(* scipy: sparse_matrix - scalar returns a copy for the scalar 0 and       *)
(* raises NotImplementedError for any other scalar.                        *)
SparseMinusScalar(A, s) ==
    IF RIsZero(s) THEN [exc |-> "none", op |-> A]
    ELSE [exc |-> "NotImplementedError", op |-> A]

(* 4 * dCJ * ECJ' * n_phi - 4 * ECJ' * (n_theta - ng - n_zeta)             *)
d_hamiltonian_d_ng_native(p) ==
    LET nf == n_phi_operator(p, EFalse)
        nt == n_theta_operator(p, EFalse)
        nz == n_zeta_operator(p, EFalse)
        first == OpScale(RMul(RMul(R(4), p.dCJ), _disordered_ecj(p)), nf.val.op)
        diff == SparseMinusScalar(nt.val.op, p.ng)
    IN  IF diff.exc # "none"
        THEN [exc |-> diff.exc, op |-> first, calcs |-> nf.calcs \o nt.calcs]
        ELSE [exc |-> "none",
              op |-> OpSub(first,
                           OpScale(RMul(R(4), _disordered_ecj(p)),
                                   OpSub(diff.op, nz.val.op))),
              calcs |-> nf.calcs \o nt.calcs \o nz.calcs]
d_hamiltonian_d_ng(p, energy_esys) ==
    process_op(p, d_hamiltonian_d_ng_native(p), energy_esys)

---------------------------------------------------------------------------
(* Noise: the T1 channels of NoisyCos2PhiQubit.                            *)

(* calc_therm_ratio(omega, T), symbolic.                                   *)
calc_therm_ratio(omega, T) == [omega |-> omega, T |-> T]

(* The quality factor at omega: the value of q_ind_fun / q_cap_fun.        *)
QNone == [kind |-> "None", value |-> R(0)]
QCallable == [kind |-> "callable", value |-> R(0)]
QNumber(v) == [kind |-> "number", value |-> v]

q_ind_fun(Q_ind, T, omega) ==
    CASE Q_ind.kind = "None" ->
            [model |-> "default_q_ind", omega |-> omega, T |-> T, value |-> R(0)]
      [] Q_ind.kind = "callable" ->
            [model |-> "Q_ind(omega)", omega |-> omega, T |-> R(0), value |-> R(0)]
      [] OTHER ->
            [model |-> "constant", omega |-> R(0), T |-> R(0), value |-> Q_ind.value]

(* The dispatch on the truth of Q_cap: the number 0 then selects the       *)
(* built-in default.                                                       *)
q_cap_fun_if_not(Q_cap, omega) ==
    CASE Q_cap.kind = "None" \/ (Q_cap.kind = "number" /\ RIsZero(Q_cap.value)) ->
            [model |-> "default_q_cap", omega |-> omega, T |-> R(0), value |-> R(0)]
      [] Q_cap.kind = "callable" ->
            [model |-> "Q_cap(omega)", omega |-> omega, T |-> R(0), value |-> R(0)]
      [] OTHER ->
            [model |-> "constant", omega |-> R(0), T |-> R(0), value |-> Q_cap.value]

(* if Q_cap is None / elif callable(Q_cap) / else                          *)
q_cap_fun(Q_cap, omega) ==
    CASE Q_cap.kind = "None" ->
            [model |-> "default_q_cap", omega |-> omega, T |-> R(0), value |-> R(0)]
      [] Q_cap.kind = "callable" ->
            [model |-> "Q_cap(omega)", omega |-> omega, T |-> R(0), value |-> R(0)]
      [] OTHER ->
            [model |-> "constant", omega |-> R(0), T |-> R(0), value |-> Q_cap.value]

(* A spectral density value, as the product the code forms:                *)
(*   prefactor * pi^pi / q * coth(|coth_half_abs|/2) / (1+exp(-fermi))     *)
SpectralDensity(prefactor, q, therm_ratio) ==
    [prefactor |-> prefactor, pi |-> 1, q |-> q,
     coth_half_abs |-> therm_ratio, one_plus_exp_neg |-> therm_ratio]

(* t1_inductive: 2 * EL / (1 -+ dL) / q_ind_fun(omega) * thermal; s *= 2pi *)
ind_spectral_density1(p, Q_ind, T_outer, omega, T) ==
    SpectralDensity(RMul(RDiv(RMul(R(2), p.EL), RSub(R(1), p.dL)), R(2)),
                    q_ind_fun(Q_ind, T_outer, omega),
                    calc_therm_ratio(omega, T))

(* The second inductive density with the first one's denominator.         *)
ind_spectral_density2_minus(p, Q_ind, T_outer, omega, T) ==
    SpectralDensity(RMul(RDiv(RMul(R(2), p.EL), RSub(R(1), p.dL)), R(2)),
                    q_ind_fun(Q_ind, T_outer, omega),
                    calc_therm_ratio(omega, T))

ind_spectral_density2(p, Q_ind, T_outer, omega, T) ==
    SpectralDensity(RMul(RDiv(RMul(R(2), p.EL), RAdd(R(1), p.dL)), R(2)),
                    q_ind_fun(Q_ind, T_outer, omega),
                    calc_therm_ratio(omega, T))

(* t1_capacitive: 2 * 8 * ECJ / (1 -+ dCJ) / q_cap_fun(omega) * thermal;   *)
(* s *= 2pi                                                                *)
cap_spectral_density1(p, Q_cap, omega, T) ==
    SpectralDensity(
        RMul(RDiv(RMul(RMul(R(2), R(8)), p.ECJ), RSub(R(1), p.dCJ)), R(2)),
        q_cap_fun(Q_cap, omega), calc_therm_ratio(omega, T))

(* The second capacitive density with the first one's denominator.        *)
cap_spectral_density2_minus(p, Q_cap, omega, T) ==
    SpectralDensity(
        RMul(RDiv(RMul(RMul(R(2), R(8)), p.ECJ), RSub(R(1), p.dCJ)), R(2)),
        q_cap_fun(Q_cap, omega), calc_therm_ratio(omega, T))

cap_spectral_density2(p, Q_cap, omega, T) ==
    SpectralDensity(
        RMul(RDiv(RMul(RMul(R(2), R(8)), p.ECJ), RAdd(R(1), p.dCJ)), R(2)),
        q_cap_fun(Q_cap, omega), calc_therm_ratio(omega, T))

(* The Purcell density with the junction charging energy.                  *)
purcell_spectral_density_ecj(p, Q_cap, omega, T) ==
    SpectralDensity(RMul(RMul(RMul(R(2), R(8)), p.ECJ), R(2)),
                    q_cap_fun(Q_cap, omega), calc_therm_ratio(omega, T))

(* t1_purcell: 2 * 8 * EC / q_cap_fun(omega) * thermal; s *= 2pi           *)
purcell_spectral_density(p, Q_cap, omega, T) ==
    SpectralDensity(RMul(RMul(RMul(R(2), R(8)), p.EC), R(2)),
                    q_cap_fun(Q_cap, omega), calc_therm_ratio(omega, T))

---------------------------------------------------------------------------
(* NoisySystem.t1, the golden-rule rate integrator: it evaluates the       *)
(* spectral density at the transition frequency and at its temperature,    *)
(* and returns the rate for get_rate True, its reciprocal (the time)       *)
(* otherwise.  The rate itself is the integrator's: an input here.  A      *)
(* density whose quality factor is the constant 0 divides by zero when it  *)
(* is evaluated.                                                           *)
t1(i, j, noise_op, spectral_density, total, esys, get_rate, rate) ==
    [exc |-> IF /\ spectral_density.q.model = "constant"
                /\ RIsZero(spectral_density.q.value)
             THEN "ZeroDivisionError" ELSE "none",
     value |-> IF get_rate THEN rate ELSE RInv(rate),
     event |-> [ev |-> "t1", i |-> i, j |-> j, noise_op |-> noise_op,
                spectral_density |-> spectral_density, total |-> total,
                esys |-> esys, get_rate |-> get_rate]]

OperatorEvent(name) == [ev |-> "operator", name |-> name]
Scalar(v) == [basis |-> "scalar", value |-> v]
InSeq(x, seq) == \E k \in 1..Len(seq) : seq[k] = x

(* a: the caller's arguments [i, j, Q, T, total, esys, get_rate];          *)
(* env: what the integrator does [omega, T, rate_1, rate_2].               *)
t1_inductive(p, supported, a, env) ==
    IF ~InSeq("t1_inductive", supported) THEN Raised("RuntimeError", <<>>)
    ELSE LET noise_op1 == phi_1_operator(p, EFalse)
             noise_op2 == phi_2_operator(p, EFalse)
             rate_1 == t1(a.i, a.j, noise_op1.val,
                          ind_spectral_density1(p, a.Q, a.T, env.omega, env.T),
                          a.total, a.esys, TRUE, env.rate_1)
             rate_2 == t1(a.i, a.j, noise_op2.val,
                          ind_spectral_density2(p, a.Q, a.T, env.omega, env.T),
                          a.total, a.esys, TRUE, env.rate_2)
             sum == RAdd(rate_1.value, rate_2.value)
             ops == <<OperatorEvent("phi_1_operator")>> \o noise_op1.calcs
                        \o <<OperatorEvent("phi_2_operator")>> \o noise_op2.calcs
         IN  IF rate_1.exc # "none"
             THEN Raised(rate_1.exc, ops \o <<rate_1.event>>)
             ELSE [exc |-> "none",
                   val |-> Scalar(IF a.get_rate THEN sum ELSE RInv(sum)),
                   calcs |-> ops \o <<rate_1.event, rate_2.event>>]

(* t1_capacitive handing the caller's get_rate on to the integrator.       *)
t1_capacitive_inner_get_rate(p, supported, a, env) ==
    IF ~InSeq("t1_capacitive", supported) THEN Raised("RuntimeError", <<>>)
    ELSE LET noise_op1 == n_1_operator(p, EFalse)
             noise_op2 == n_2_operator(p, EFalse)
             rate_1 == t1(a.i, a.j, noise_op1.val,
                          cap_spectral_density1(p, a.Q, env.omega, env.T),
                          a.total, a.esys, a.get_rate, env.rate_1)
             rate_2 == t1(a.i, a.j, noise_op2.val,
                          cap_spectral_density2(p, a.Q, env.omega, env.T),
                          a.total, a.esys, a.get_rate, env.rate_2)
             sum == RAdd(rate_1.value, rate_2.value)
             ops == <<OperatorEvent("n_1_operator")>> \o noise_op1.calcs
                        \o <<OperatorEvent("n_2_operator")>> \o noise_op2.calcs
         IN  IF rate_1.exc # "none"
             THEN Raised(rate_1.exc, ops \o <<rate_1.event>>)
             ELSE [exc |-> "none",
                   val |-> Scalar(IF a.get_rate THEN sum ELSE RInv(sum)),
                   calcs |-> ops \o <<rate_1.event, rate_2.event>>]

t1_capacitive(p, supported, a, env) ==
    IF ~InSeq("t1_capacitive", supported) THEN Raised("RuntimeError", <<>>)
    ELSE LET noise_op1 == n_1_operator(p, EFalse)
             noise_op2 == n_2_operator(p, EFalse)
             rate_1 == t1(a.i, a.j, noise_op1.val,
                          cap_spectral_density1(p, a.Q, env.omega, env.T),
                          a.total, a.esys, TRUE, env.rate_1)
             rate_2 == t1(a.i, a.j, noise_op2.val,
                          cap_spectral_density2(p, a.Q, env.omega, env.T),
                          a.total, a.esys, TRUE, env.rate_2)
             sum == RAdd(rate_1.value, rate_2.value)
             ops == <<OperatorEvent("n_1_operator")>> \o noise_op1.calcs
                        \o <<OperatorEvent("n_2_operator")>> \o noise_op2.calcs
         IN  IF rate_1.exc # "none"
             THEN Raised(rate_1.exc, ops \o <<rate_1.event>>)
             ELSE [exc |-> "none",
                   val |-> Scalar(IF a.get_rate THEN sum ELSE RInv(sum)),
                   calcs |-> ops \o <<rate_1.event, rate_2.event>>]

(* t1_purcell without its channel check.                                   *)
t1_purcell_unchecked(p, supported, a, env) ==
    LET noise_op == n_zeta_operator(p, EFalse)
        res == t1(a.i, a.j, noise_op.val,
                  purcell_spectral_density(p, a.Q, env.omega, env.T),
                  a.total, a.esys, a.get_rate, env.rate_1)
        calcs == <<OperatorEvent("n_zeta_operator")>> \o noise_op.calcs
                     \o <<res.event>>
    IN  IF res.exc # "none" THEN Raised(res.exc, calcs)
        ELSE [exc |-> "none", val |-> Scalar(res.value), calcs |-> calcs]

t1_purcell(p, supported, a, env) ==
    IF ~InSeq("t1_purcell", supported) THEN Raised("RuntimeError", <<>>)
    ELSE LET noise_op == n_zeta_operator(p, EFalse)
             res == t1(a.i, a.j, noise_op.val,
                       purcell_spectral_density(p, a.Q, env.omega, env.T),
                       a.total, a.esys, a.get_rate, env.rate_1)
             calcs == <<OperatorEvent("n_zeta_operator")>> \o noise_op.calcs
                          \o <<res.event>>
         IN  IF res.exc # "none" THEN Raised(res.exc, calcs)
             ELSE [exc |-> "none", val |-> Scalar(res.value), calcs |-> calcs]

---------------------------------------------------------------------------
(* operators.py and the single-subspace ladder operators, entry by entry.  *)
(* A number is a combination, with complex coefficients, of the surds      *)
(* sqrt(rad) * l^e, keyed <<rad, e>>: rad a square-free positive integer,  *)
(* l the oscillator strength of the subspace (a positive real, symbolic).  *)
(* A matrix is its dimension and its entries at <<row, column>>, counted   *)
(* from 0 as in the program.                                               *)

NumZero == [k \in {} |-> CReal(R(0))]
Num(c) == IF c = CReal(R(0)) THEN NumZero ELSE [k \in {<<1, 0>>} |-> c]
NumAdd(x, y) == MatAdd(x, y)
NumMul(x, y) ==
    LET Pairs == (DOMAIN x) \X (DOMAIN y)
        Common(t) == GCD(t[1][1], t[2][1])
        Key(t) == <<(t[1][1] \div Common(t)) * (t[2][1] \div Common(t)),
                    t[1][2] + t[2][2]>>
        Term(t) == CMul(CReal(R(Common(t))), CMul(x[t[1]], y[t[2]]))
        sum == [k \in {Key(t) : t \in Pairs} |->
                   LET S == {t \in Pairs : Key(t) = k}
                   IN  <<RSum(S, [t \in S |-> Term(t)[1]]),
                         RSum(S, [t \in S |-> Term(t)[2]])>>]
    IN  [k \in {q \in DOMAIN sum : sum[q] # CReal(R(0))} |-> sum[k]]

(* np.sqrt of a non-negative integer.                                      *)
RECURSIVE LargestSquare(_, _)
LargestSquare(n, s) == IF n % (s * s) = 0 THEN s ELSE LargestSquare(n, s - 1)
np_sqrt(n) ==
    IF n = 0 THEN NumZero
    ELSE LET s == LargestSquare(n, n)
         IN  [k \in {<<n \div (s * s), 0>>} |-> CReal(R(s))]

(* A matrix: its dimension and its nonzero entries <<row, column, value>>. *)
Indices(n) == (0 .. n - 1) \X (0 .. n - 1)
Entries(n, nz) == [dim |-> n, nz |-> {e \in nz : e[3] # NumZero}]
At(A, i, j) ==
    IF \E e \in A.nz : e[1] = i /\ e[2] = j
    THEN (CHOOSE e \in A.nz : e[1] = i /\ e[2] = j)[3]
    ELSE NumZero
DTranspose(A) == Entries(A.dim, {<<e[2], e[1], e[3]>> : e \in A.nz})
DAdd(A, B) ==
    Entries(A.dim,
            {<<ix[1], ix[2], NumAdd(At(A, ix[1], ix[2]), At(B, ix[1], ix[2]))>> :
                ix \in {<<e[1], e[2]>> : e \in A.nz \cup B.nz}})
DScale(c, A) == Entries(A.dim, {<<e[1], e[2], NumMul(c, e[3])>> : e \in A.nz})
DSub(A, B) == DAdd(A, DScale(Num(CReal(R(-1))), B))
RECURSIVE NumSum(_, _)
NumSum(S, f) ==
    IF S = {} THEN NumZero
    ELSE LET x == CHOOSE y \in S : TRUE
         IN  NumAdd(f[x], NumSum(S \ {x}, f))
DMul(A, B) ==
    LET Meet == {t \in A.nz \X B.nz : t[1][2] = t[2][1]}
    IN  Entries(A.dim,
                {<<ix[1], ix[2],
                   LET S == {t \in Meet : t[1][1] = ix[1] /\ t[2][2] = ix[2]}
                   IN  NumSum(S, [t \in S |-> NumMul(t[1][3], t[2][3])])>> :
                    ix \in {<<t[1][1], t[2][2]>> : t \in Meet}})

(* np.diagflat(v, k), k >= 0: a square matrix of size len(v) + k with v[i] *)
(* at (i, i + k).                                                          *)
np_diagflat(v, k) ==
    Entries(Len(v) + k, {<<i, i + k, v[i + 1]>> : i \in 0 .. Len(v) - 1})

(* sp.sparse.dia_matrix((data, [offset]), shape=(n, n)): data[j] is the    *)
(* entry of column j on the diagonal offset, at (j - offset, j).           *)
dia_matrix(data, offset, n) ==
    Entries(n,
            {<<j - offset, j, data[j + 1]>> :
                j \in {c \in 0 .. n - 1 : c < Len(data) /\ c - offset \in 0 .. n - 1}})

(* The dense matrix from np.sqrt(range(dimension)): one element too many.  *)
annihilation_from_zero(dimension) ==
    np_diagflat([r \in 1 .. dimension |-> np_sqrt(r - 1)], 1)

(* offdiag_elements = np.sqrt(range(1, dimension)); np.diagflat(.., 1)     *)
annihilation(dimension) ==
    np_diagflat([r \in 1 .. dimension - 1 |-> np_sqrt(r)], 1)

(* The sparse matrix from np.sqrt(range(1, dimension)): the data of the    *)
(* dense constructor handed to dia_matrix.                                 *)
annihilation_sparse_from_one(dimension) ==
    dia_matrix([c \in 1 .. dimension - 1 |-> np_sqrt(c)], 1, dimension)

(* operators.annihilation_sparse(dimension), entry by entry:               *)
(* offdiag_elements = np.sqrt(range(dimension)); dia_matrix(.., [1])       *)
annihilation_sparse_csc(dimension) ==
    dia_matrix([c \in 1 .. dimension |-> np_sqrt(c - 1)], 1, dimension)

(* annihilation(dimension).T                                               *)
creation(dimension) == DTranspose(annihilation(dimension))

(* operators.creation_sparse(dimension), entry by entry:                   *)
(* annihilation_sparse(dimension).transpose()                              *)
creation_sparse_csc(dimension) == DTranspose(annihilation_sparse_csc(dimension))

(* The optional prefactor of number and number_sparse.                     *)
NoPrefactor == [kind |-> "None", value |-> R(0)]
Prefactor(v) == [kind |-> "number", value |-> v]

(* diag_elements = np.arange(dimension); if prefactor: diag_elements *=    *)
(* prefactor.  A prefactor that is None or 0 is false.                     *)
diag_elements(dimension, prefactor) ==
    [r \in 1 .. dimension |->
        IF prefactor.kind # "None" /\ ~RIsZero(prefactor.value)
        THEN NumMul(Num(CReal(prefactor.value)), Num(CReal(R(r - 1))))
        ELSE Num(CReal(R(r - 1)))]

(* np.diagflat(diag_elements)                                              *)
number(dimension, prefactor) ==
    np_diagflat(diag_elements(dimension, prefactor), 0)

(* operators.number_sparse(dimension, prefactor), entry by entry:          *)
(* dia_matrix((diag_elements, [0]), shape=(dimension, dimension))          *)
number_sparse_csc(dimension, prefactor) ==
    dia_matrix(diag_elements(dimension, prefactor), 0, dimension)

(* The oscillator strength l to the power e, and 1 / math.sqrt(2).         *)
Osc(e) == [k \in {<<1, e>>} |-> CReal(R(1))]
InvSqrt2 == [k \in {<<2, 0>>} |-> CReal(Rat(1, 2))]

(* _phi_operator, _zeta_operator, entry by entry:                          *)
(* (creation_sparse + annihilation_sparse) * osc / math.sqrt(2)            *)
_phi_entries(dimension) ==
    DScale(InvSqrt2,
           DScale(Osc(1),
                  DAdd(creation_sparse_csc(dimension),
                       annihilation_sparse_csc(dimension))))

(* The charge operator without its factor 1j.                              *)
_n_phi_entries_real(dimension) ==
    DScale(NumMul(Osc(-1), InvSqrt2),
           DSub(creation_sparse_csc(dimension),
                annihilation_sparse_csc(dimension)))

(* _n_phi_operator, _n_zeta_operator, entry by entry:                      *)
(* 1j * (creation_sparse - annihilation_sparse) / (osc * math.sqrt(2))     *)
_n_phi_entries(dimension) ==
    DScale(NumMul(Osc(-1), InvSqrt2),
           DScale(Num(CImag),
                  DSub(creation_sparse_csc(dimension),
                       annihilation_sparse_csc(dimension))))

---------------------------------------------------------------------------
(* potential(phi, zeta, theta) and reduced_potential(phi, theta): the      *)
(* coefficients and the arguments of                                       *)
(*   EL' * (phi * phi) + EL' * (zeta * zeta)                               *)
(*   - 2 * EJ * cos(theta) * cos(phi + pi * flux)                          *)
(*   + 2 * dEJ * EJ * sin(phi + pi * flux) * sin(theta)                    *)
potential(p, phi, zeta, theta) ==
    [exc |-> "none",
     val |-> [basis |-> "energy",
              phi_squared |-> _disordered_el(p), zeta_squared |-> _disordered_el(p),
              cos_cos |-> RMul(R(-2), p.EJ),
              sin_sin |-> RMul(RMul(R(2), p.dEJ), p.EJ),
              flux |-> p.flux, phi |-> phi, zeta |-> zeta, theta |-> theta],
     calcs |-> <<>>]

(* self.potential(phi, 0, theta)                                           *)
reduced_potential(p, phi, theta) == potential(p, phi, R(0), theta)

---------------------------------------------------------------------------
(* wavefunction(esys, which, phi_grid, zeta_grid, theta_grid).  A column   *)
(* of evecs is its length and its nonzero components <<index, amplitude>>, *)
(* the index counted from 0.                                               *)

(* The internal request for exactly which + 1 eigenstates.                 *)
wavefunction_evals_count_exact(which) == which + 1

(* evals_count = max(which + 1, 3)                                         *)
wavefunction_evals_count(which) == IF which + 1 > 3 THEN which + 1 ELSE 3

(* grid or self._default_grid                                              *)
GridOr(grid, default) == IF grid = "None" THEN default ELSE grid

(* sparse.kron(A, B): the row of A at a and the row of B at b meet in row  *)
(* a * nb + b, nb the dimension of B.                                      *)
kron_index(a, b, nb) == a * nb + b

(* The row of _kron3(mat1, mat2, mat3) =                                   *)
(* sparse.kron(sparse.kron(mat1, mat2), mat3) where the rows i of mat1, j  *)
(* of mat2 and k of mat3 meet; shape = <<dim1, dim2, dim3>>.               *)
_kron3_index(i, j, k, shape) ==
    kron_index(kron_index(i, j, shape[2]), k, shape[3])

(* The reshape in column-major (Fortran) order.                            *)
reshape_index_column_major(f, shape) ==
    <<f % shape[1], (f \div shape[1]) % shape[2], f \div (shape[1] * shape[2])>>

(* vector.reshape(shape): numpy's row-major order, the [i, j, k] that      *)
(* component f of the vector becomes.                                      *)
reshape_index(f, shape) ==
    <<f \div (shape[2] * shape[3]), (f \div shape[3]) % shape[2], f % shape[3]>>

(* The loop body with the theta index taken as the charge label.           *)
wavefunc_term_unshifted(i, j, k, amplitude, ncut, grids) ==
    [amplitude |-> amplitude,
     phi |-> [fn |-> "harm_osc_wavefunction", n |-> i, x |-> grids.phi,
              l_osc |-> "phi_osc"],
     zeta |-> [fn |-> "harm_osc_wavefunction", n |-> j, x |-> grids.zeta,
               l_osc |-> "zeta_osc"],
     theta |-> [fn |-> "exp(-1j*n*x)/sqrt(2*pi)", n |-> k, x |-> grids.theta]]

(* The loop body: n_phi, n_zeta, n_theta = i, j, k - self.ncut and         *)
(* amplitude * (harm_osc(n_phi) (x) harm_osc(n_zeta)                       *)
(*              (x) exp(-1j * n_theta * theta) / (2 pi) ** 0.5)            *)
wavefunc_term(i, j, k, amplitude, ncut, grids) ==
    [amplitude |-> amplitude,
     phi |-> [fn |-> "harm_osc_wavefunction", n |-> i, x |-> grids.phi,
              l_osc |-> "phi_osc"],
     zeta |-> [fn |-> "harm_osc_wavefunction", n |-> j, x |-> grids.zeta,
               l_osc |-> "zeta_osc"],
     theta |-> [fn |-> "exp(-1j*n*x)/sqrt(2*pi)", n |-> k - ncut,
                x |-> grids.theta]]

(* a: the caller's arguments [esys, which, phi_grid, zeta_grid,            *)
(* theta_grid]; evecs: the eigenvectors, the supplied ones or the ones     *)
(* self.eigensys(evals_count) computes.  The sum over the loop is the set  *)
(* of its terms with a nonzero amplitude.                                  *)
wavefunction(p, a, evecs) ==
    LET evals_count == wavefunction_evals_count(a.which)
        calcs == IF a.esys.kind = "None" THEN <<EigensysEvent(evals_count)>>
                 ELSE <<>>
        grids == [phi |-> GridOr(a.phi_grid, "_default_phi_grid"),
                  zeta |-> GridOr(a.zeta_grid, "_default_zeta_grid"),
                  theta |-> GridOr(a.theta_grid, "_default_theta_grid")]
        shape == <<_dim_phi(p), _dim_zeta(p), _dim_theta(p)>>
    IN  IF a.which >= Len(evecs) THEN Raised("IndexError", calcs)
        ELSE LET column == evecs[a.which + 1]
                 Term(e) == LET ijk == reshape_index(e[1], shape)
                            IN  wavefunc_term(ijk[1], ijk[2], ijk[3], e[2],
                                              p.ncut, grids)
             IN  [exc |-> "none",
                  val |-> [basis |-> "grid", column |-> column, gridspec |-> grids,
                           amplitudes |-> {Term(e) : e \in column.nz}],
                  calcs |-> calcs]

---------------------------------------------------------------------------
(* The state machine: one qubit object, its parameter writes and queries.  *)

(* Bounds of the model.                                                    *)
MaxWrites == 1
MaxEvals == 2
MaxDim == 3
MaxWhich == 3

(* The values a parameter write may store: the default and alternatives.   *)
ParamValues ==
    [EJ |-> {R(15), R(3)}, ECJ |-> {R(2)}, EL |-> {R(1)}, EC |-> {Rat(1, 25)},
     dCJ |-> {R(0), Rat(1, 2)}, dL |-> {Rat(3, 5), Rat(-1, 5)},
     dEJ |-> {R(0), Rat(1, 4)}, flux |-> {Rat(1, 2), R(0), R(1)},
     ng |-> {R(0), Rat(1, 4)}, ncut |-> {7, 0}, zeta_cut |-> {30, 2},
     phi_cut |-> {7, 3, 1}, truncated_dim |-> {6, 2}]

OperatorNames ==
    {"phi_operator", "n_phi_operator", "zeta_operator", "n_zeta_operator",
     "n_theta_operator", "phi_1_operator", "phi_2_operator", "n_1_operator",
     "n_2_operator", "d_hamiltonian_d_flux", "d_hamiltonian_d_EJ",
     "d_hamiltonian_d_ng"}

T1Channels == {"t1_inductive", "t1_capacitive", "t1_purcell"}

Accessor(name, p, e) ==
    CASE name = "phi_operator" -> phi_operator(p, e)
      [] name = "n_phi_operator" -> n_phi_operator(p, e)
      [] name = "zeta_operator" -> zeta_operator(p, e)
      [] name = "n_zeta_operator" -> n_zeta_operator(p, e)
      [] name = "n_theta_operator" -> n_theta_operator(p, e)
      [] name = "phi_1_operator" -> phi_1_operator(p, e)
      [] name = "phi_2_operator" -> phi_2_operator(p, e)
      [] name = "n_1_operator" -> n_1_operator(p, e)
      [] name = "n_2_operator" -> n_2_operator(p, e)
      [] name = "d_hamiltonian_d_flux" -> d_hamiltonian_d_flux(p, e)
      [] name = "d_hamiltonian_d_EJ" -> d_hamiltonian_d_EJ(p, e)
      [] name = "d_hamiltonian_d_ng" -> d_hamiltonian_d_ng(p, e)
      [] name = "hamiltonian" -> hamiltonian(p, e)

T1Method(channel, p, supported, a, env) ==
    CASE channel = "t1_inductive" -> t1_inductive(p, supported, a, env)
      [] channel = "t1_capacitive" -> t1_capacitive(p, supported, a, env)
      [] channel = "t1_purcell" -> t1_purcell(p, supported, a, env)

(* self.supported_noise_channels(): the class's list, less what a subclass *)
(* or a monkeypatch removed.                                               *)
SupportedNow(rem) ==
    SelectSeq(supported_noise_channels, LAMBDA c : c \notin rem)

(* The arguments the clients pass.                                         *)
EnergyEsysArgs(p) ==
    {EFalse, ETrue} \cup {EGiven(Esys(k, p)) : k \in 1..MaxEvals}
ENone == [kind |-> "None"]
QArgs == {QNone, QCallable, QNumber(R(1000)), QNumber(R(0))}
Temperatures == {Rat(3, 200)}
Omegas == {R(5)}
Rates == {R(1), R(2)}

(* i, j, total, esys: the defaults, and a call that changes all four.      *)
PassedThrough(p) ==
    {[i |-> 1, j |-> 0, total |-> TRUE, esys |-> ENone],
     [i |-> 0, j |-> 2, total |-> FALSE, esys |-> EGiven(Esys(MaxEvals, p))]}

T1Args(p) ==
    {[i |-> t.i, j |-> t.j, Q |-> q, T |-> T, total |-> t.total,
      esys |-> t.esys, get_rate |-> g] :
        t \in PassedThrough(p), q \in QArgs, T \in Temperatures,
        g \in BOOLEAN}

(* What the integrator does in one call of a T1 method: the frequency and  *)
(* temperature it evaluates the spectral densities at, and the rate of     *)
(* each of its (one or two) invocations.                                   *)
IntegratorOutcomes(channel) ==
    {[omega |-> w, T |-> T, rate_1 |-> r1, rate_2 |-> r2] :
        w \in Omegas, T \in Temperatures, r1 \in Rates,
        r2 \in IF channel = "t1_purcell" THEN {R(1)} ELSE Rates}

(* The eigenvalues the solver may return, and its outcomes for k of them.  *)
SolverEigenvalues == {R(-1), R(2)}
SolverOutcomes(k) ==
    {SolverRaises("ArpackNoConvergence")}
        \cup {SolverReturns(evals) : evals \in [1..k -> SolverEigenvalues]}

(* The functions of operators.py a client calls, and their arguments.      *)
OperatorsFunctions ==
    {"annihilation", "annihilation_sparse", "creation", "creation_sparse",
     "number", "number_sparse"}
Prefactors(fn) ==
    IF fn \in {"number", "number_sparse"}
    THEN {NoPrefactor, Prefactor(R(0)), Prefactor(R(3))}
    ELSE {NoPrefactor}
OperatorsFunction(fn, dimension, prefactor) ==
    CASE fn = "annihilation" -> annihilation(dimension)
      [] fn = "annihilation_sparse" -> annihilation_sparse_csc(dimension)
      [] fn = "creation" -> creation(dimension)
      [] fn = "creation_sparse" -> creation_sparse_csc(dimension)
      [] fn = "number" -> number(dimension, prefactor)
      [] fn = "number_sparse" -> number_sparse_csc(dimension, prefactor)

(* The single-subspace phase and charge operators of the qubit.            *)
SubspaceOperators ==
    {"_phi_operator", "_n_phi_operator", "_zeta_operator", "_n_zeta_operator"}
SubspaceDimension(name, p) ==
    IF name \in {"_phi_operator", "_n_phi_operator"} THEN _dim_phi(p)
    ELSE _dim_zeta(p)
SubspaceOperator(name, p) ==
    IF name \in {"_phi_operator", "_zeta_operator"}
    THEN _phi_entries(SubspaceDimension(name, p))
    ELSE _n_phi_entries(SubspaceDimension(name, p))

(* The coordinates potential() is evaluated at.                            *)
Coordinates == {<<R(0), R(0), R(0)>>, <<Rat(1, 2), R(1), Rat(1, 4)>>}

(* The arguments of wavefunction(): the defaults with every which, a       *)
(* supplied eigensystem of MaxWhich + 1 columns with custom grids, and a   *)
(* supplied eigensystem of one column.                                     *)
WavefunctionArgs(p) ==
    {[esys |-> ENone, which |-> w, phi_grid |-> "None", zeta_grid |-> "None",
      theta_grid |-> "None"] : w \in 0 .. MaxWhich}
    \cup {[esys |-> EGiven(Esys(MaxWhich + 1, p)), which |-> w,
           phi_grid |-> "phi_grid", zeta_grid |-> "zeta_grid",
           theta_grid |-> "theta_grid"] : w \in 0 .. MaxWhich}
    \cup {[esys |-> EGiven(Esys(1, p)), which |-> w, phi_grid |-> "None",
           zeta_grid |-> "None", theta_grid |-> "None"] : w \in 0 .. 1}

(* The eigenvectors: count columns of length hilbertdim().  Column c is    *)
(* the basis vector c, or the basis vector counted from the end, or a      *)
(* combination of the two with amplitudes 3/5 and 4i/5.                    *)
Unit(n, f) == [size |-> n, nz |-> {<<f % n, CReal(R(1))>>}]
Eigenvectors(p, count) ==
    LET n == hilbertdim(p)
    IN  {[c \in 1 .. count |-> Unit(n, c - 1)],
         [c \in 1 .. count |-> Unit(n, n - c)],
         [c \in 1 .. count |->
             [size |-> n,
              nz |-> {<<(c - 1) % n, CReal(Rat(3, 5))>>,
                      <<(n - c) % n, <<R(0), Rat(4, 5)>>>>}]]}
EigenvectorsFor(p, a) ==
    Eigenvectors(p, IF a.esys.kind = "None"
                    THEN wavefunction_evals_count(a.which)
                    ELSE a.esys.esys.count)

NoRet == [exc |-> "none", val |-> NoVal, calcs |-> <<>>]
Idle == [name |-> "idle"]

Init ==
    /\ params = Construct(default_params)
    /\ removed = {}
    /\ updates = 0
    /\ call = Idle
    /\ ret = NoRet

(* The class body with the declaration of flux lost: flux is then a plain  *)
(* attribute.                                                              *)
WatchedProperties_without_flux ==
    {"EJ", "ECJ", "EL", "EC", "dCJ", "dL", "dEJ", "ng", "ncut", "zeta_cut",
     "phi_cut"}

(* The attributes the class body declares as                               *)
(* descriptors.WatchedProperty(<type>, "QUANTUMSYSTEM_UPDATE").            *)
WatchedProperties ==
    {"EJ", "ECJ", "EL", "EC", "dCJ", "dL", "dEJ", "flux", "ng", "ncut",
     "zeta_cut", "phi_cut"}

(* The watched attribute the base class declares.                          *)
BaseWatchedProperties == {"truncated_dim"}

(* A write to a parameter attribute of the object: the store and, for a    *)
(* watched attribute, the broadcast of QUANTUMSYSTEM_UPDATE (updates       *)
(* counts the broadcasts).                                                 *)
SetParam(field, v) ==
    /\ call = Idle
    /\ updates < MaxWrites
    /\ params' = [params EXCEPT ![field] = v]
    /\ updates' = IF field \in WatchedProperties \cup BaseWatchedProperties
                  THEN updates + 1 ELSE updates
    /\ UNCHANGED <<removed, call, ret>>

(* A channel is removed from the allow-list.                               *)
RemoveChannel(c) ==
    /\ call = Idle
    /\ removed = {}
    /\ removed' = {c}
    /\ UNCHANGED <<params, updates, call, ret>>

CallSupportedNoiseChannels ==
    /\ call = Idle
    /\ call' = [name |-> "supported_noise_channels"]
    /\ ret' = [exc |-> "none",
               val |-> [basis |-> "list", value |-> SupportedNow(removed)],
               calcs |-> <<>>]
    /\ UNCHANGED <<params, removed, updates>>

CallOperator(name, e) ==
    /\ call = Idle
    /\ call' = [name |-> name, energy_esys |-> e]
    /\ ret' = Accessor(name, params, e)
    /\ UNCHANGED <<params, removed, updates>>

CallT1(channel, a, env) ==
    /\ call = Idle
    /\ call' = [name |-> channel, args |-> a, env |-> env]
    /\ ret' = T1Method(channel, params, SupportedNow(removed), a, env)
    /\ UNCHANGED <<params, removed, updates>>

CallEvalsCalc(evals_count, solver) ==
    /\ call = Idle
    /\ call' = [name |-> "_evals_calc", evals_count |-> evals_count,
                solver |-> solver]
    /\ ret' = _evals_calc(params, evals_count, solver)
    /\ UNCHANGED <<params, removed, updates>>

CallEsysCalc(evals_count, solver) ==
    /\ call = Idle
    /\ call' = [name |-> "_esys_calc", evals_count |-> evals_count,
                solver |-> solver]
    /\ ret' = _esys_calc(params, evals_count, solver)
    /\ UNCHANGED <<params, removed, updates>>

CallOperators(fn, dimension, prefactor) ==
    /\ call = Idle
    /\ call' = [name |-> fn, dimension |-> dimension, prefactor |-> prefactor]
    /\ ret' = [exc |-> "none",
               val |-> [basis |-> "matrix",
                        matrix |-> OperatorsFunction(fn, dimension, prefactor)],
               calcs |-> <<>>]
    /\ UNCHANGED <<params, removed, updates>>

CallSubspaceOperator(name) ==
    /\ call = Idle
    /\ call' = [name |-> name]
    /\ ret' = [exc |-> "none",
               val |-> [basis |-> "matrix",
                        matrix |-> SubspaceOperator(name, params)],
               calcs |-> <<>>]
    /\ UNCHANGED <<params, removed, updates>>

CallPotential(at) ==
    /\ call = Idle
    /\ call' = [name |-> "potential", at |-> at]
    /\ ret' = potential(params, at[1], at[2], at[3])
    /\ UNCHANGED <<params, removed, updates>>

CallReducedPotential(at) ==
    /\ call = Idle
    /\ call' = [name |-> "reduced_potential", at |-> at]
    /\ ret' = reduced_potential(params, at[1], at[3])
    /\ UNCHANGED <<params, removed, updates>>

(* wavefunction() storing its eigenstate count in the object.              *)
CallWavefunction_resizing(a, evecs) ==
    /\ call = Idle
    /\ call' = [name |-> "wavefunction", args |-> a, evecs |-> evecs]
    /\ ret' = wavefunction(params, a, evecs)
    /\ params' = [params EXCEPT
                     !.truncated_dim = wavefunction_evals_count(a.which)]
    /\ UNCHANGED <<removed, updates>>

CallWavefunction(a, evecs) ==
    /\ call = Idle
    /\ call' = [name |-> "wavefunction", args |-> a, evecs |-> evecs]
    /\ ret' = wavefunction(params, a, evecs)
    /\ UNCHANGED <<params, removed, updates>>

(* The client takes the result; the object is ready for the next call.     *)
Return ==
    /\ call # Idle
    /\ call' = Idle
    /\ ret' = NoRet
    /\ UNCHANGED <<params, removed, updates>>

Next ==
    \/ \E field \in DOMAIN ParamValues :
           \E v \in ParamValues[field] : SetParam(field, v)
    \/ \E c \in T1Channels : RemoveChannel(c)
    \/ CallSupportedNoiseChannels
    \/ \E name \in OperatorNames \cup {"hamiltonian"} :
           \E e \in EnergyEsysArgs(params) : CallOperator(name, e)
    \/ \E channel \in T1Channels :
           \E a \in T1Args(params) :
               \E env \in IntegratorOutcomes(channel) : CallT1(channel, a, env)
    \/ \E evals_count \in 1..MaxEvals :
           \E solver \in SolverOutcomes(evals_count) :
               \/ CallEvalsCalc(evals_count, solver)
               \/ CallEsysCalc(evals_count, solver)
    \/ \E fn \in OperatorsFunctions :
           \E dimension \in 1 .. MaxDim :
               \E prefactor \in Prefactors(fn) :
                   CallOperators(fn, dimension, prefactor)
    \/ \E name \in SubspaceOperators : CallSubspaceOperator(name)
    \/ \E at \in Coordinates : CallPotential(at) \/ CallReducedPotential(at)
    \/ \E a \in WavefunctionArgs(params) :
           \E evecs \in EigenvectorsFor(params, a) : CallWavefunction(a, evecs)
    \/ Return

Spec == Init /\ [][Next]_vars

---------------------------------------------------------------------------
(* Properties.                                                             *)

T1Events(r) == SelectSeq(r.calcs, LAMBDA e : e.ev = "t1")
SeqRange(seq) == {seq[k] : k \in 1..Len(seq)}

(* C1: a T1 method whose channel name is absent from                       *)
(* supported_noise_channels() raises RuntimeError before any noise         *)
(* operator is built and before self.t1 is invoked, and returns no value.  *)
C1_UnsupportedChannelRaisesFirst ==
    (call.name \in T1Channels /\ call.name \in removed)
        => /\ ret.exc = "RuntimeError"
           /\ ret.val = NoVal
           /\ ret.calcs = <<>>

C1_Witness ==
    /\ call.name \in T1Channels
    /\ call.name \in removed
    /\ ret.exc = "RuntimeError"

(* C2: supported_noise_channels() returns exactly the six channel names,   *)
(* no other name and no duplicate, whatever the parameters are.            *)
C2_SixChannels ==
    (call.name = "supported_noise_channels" /\ removed = {})
        => /\ ret.exc = "none"
           /\ Len(ret.val.value) = 6
           /\ SeqRange(ret.val.value) =
                  {"tphi_1_over_f_cc", "tphi_1_over_f_flux",
                   "tphi_1_over_f_ng", "t1_capacitive", "t1_inductive",
                   "t1_purcell"}

C2_Witness ==
    /\ call.name = "supported_noise_channels"
    /\ removed = {}
    /\ params # Construct(default_params)
    /\ Len(ret.val.value) = 6

(* The Hamiltonian in the native basis with one parameter replaced.        *)
HamiltonianAt(field, v) == hamiltonian_native([params EXCEPT ![field] = v]).op

(* Exact difference quotients: H is linear in EJ and a first-degree        *)
(* trigonometric polynomial in pi * flux.                                  *)
DifferenceQuotientEJ ==
    OpSub(HamiltonianAt("EJ", RAdd(params.EJ, R(1))), HamiltonianAt("EJ", params.EJ))
DerivativeFlux ==
    OpTimesSym(Pi,
        OpScale(Rat(1, 2),
                OpSub(HamiltonianAt("flux", RAdd(params.flux, Rat(1, 2))),
                      HamiltonianAt("flux", RSub(params.flux, Rat(1, 2))))))

NativeCall(name) == call.name = name /\ call.energy_esys = EFalse

(* C3: d_hamiltonian_d_EJ(energy_esys=False) equals the difference         *)
(* quotient (H(EJ+h) - H(EJ))/h of hamiltonian(), the constant offset      *)
(* 2*EJ*I and the junction-energy disorder term included.                  *)
C3_dEJ_IsDerivativeOfHamiltonian ==
    NativeCall("d_hamiltonian_d_EJ")
        => /\ ret.exc = "none"
           /\ ret.val.op = DifferenceQuotientEJ

(* C4: for every parameter set, ng # 0 included,                           *)
(* d_hamiltonian_d_ng(energy_esys=False) returns                           *)
(* -4*ECJ'*(n_theta - ng*I - n_zeta) + 4*ECJ'*dCJ*n_phi.                   *)
C4_dNg_DefinedForEveryNg ==
    NativeCall("d_hamiltonian_d_ng")
        => /\ ret.exc = "none"
           /\ ret.val.op =
                  OpAdd(OpScale(RMul(R(-4), _disordered_ecj(params)),
                                OpSub(OpSub(n_theta_native(params).op,
                                            OpScale(params.ng,
                                                    total_identity(params))),
                                      n_zeta_native(params).op)),
                        OpScale(RMul(RMul(R(4), _disordered_ecj(params)),
                                     params.dCJ),
                                n_phi_native(params).op))

(* sin(phi + pi*flux) and cos(phi + pi*flux) in the phi subspace.          *)
SinPhiPlusFlux ==
    OpAdd(OpScale(CosPi(params.flux), _sin_phi_operator(params)),
          OpScale(SinPi(params.flux), _cos_phi_operator(params)))
CosPhiPlusFlux ==
    OpSub(OpScale(CosPi(params.flux), _cos_phi_operator(params)),
          OpScale(SinPi(params.flux), _sin_phi_operator(params)))

T1Ran(channel) == call.name = channel /\ ret.exc = "none"

(* The integrator invocation took the caller's i, j, total and esys.       *)
PassesCallerArgs(e) ==
    /\ e.i = call.args.i
    /\ e.j = call.args.j
    /\ e.total = call.args.total
    /\ e.esys = call.args.esys

(* C6: t1_inductive and t1_capacitive call the integrator twice, both      *)
(* times with get_rate=True and the caller's i, j, total and esys          *)
(* unchanged, and return rate_1 + rate_2 if get_rate, else                 *)
(* 1 / (rate_1 + rate_2).                                                  *)
C6_TwoRatesSummed ==
    (T1Ran("t1_inductive") \/ T1Ran("t1_capacitive"))
        => LET ev == T1Events(ret)
               total_rate == RAdd(call.env.rate_1, call.env.rate_2)
           IN  /\ Len(ev) = 2
               /\ \A k \in 1..2 : ev[k].get_rate = TRUE /\ PassesCallerArgs(ev[k])
               /\ ret.val = Scalar(IF call.args.get_rate THEN total_rate
                                   ELSE RInv(total_rate))

C6_Witness ==
    /\ T1Ran("t1_capacitive")
    /\ call.args.get_rate = FALSE
    /\ call.args.i = 0
    /\ call.env.rate_1 # call.env.rate_2
    /\ ret.val = Scalar(Rat(1, 3))

(* The spectral density the claims describe: prefactor * pi / Q(omega)     *)
(* times the thermal factor at the integrator's omega and T.               *)
ClaimedDensity(prefactor, q) ==
    [prefactor |-> prefactor, pi |-> 1, q |-> q,
     coth_half_abs |-> calc_therm_ratio(call.env.omega, call.env.T),
     one_plus_exp_neg |-> calc_therm_ratio(call.env.omega, call.env.T)]

CapacitiveDensities(c) ==
    LET ev == T1Events(ret)
        q == q_cap_fun(call.args.Q, call.env.omega)
    IN  /\ Len(ev) = 2
        /\ ev[1].noise_op = n_1_operator(params, EFalse).val
        /\ ev[1].spectral_density =
               ClaimedDensity(RDiv(RMul(c, params.ECJ),
                                   RSub(R(1), params.dCJ)), q)
        /\ ev[2].noise_op = n_2_operator(params, EFalse).val
        /\ ev[2].spectral_density =
               ClaimedDensity(RDiv(RMul(c, params.ECJ),
                                   RAdd(R(1), params.dCJ)), q)

(* C7 as stated: t1_capacitive pairs n_1 with the prefactor                *)
(* 16*pi*ECJ/(1-dCJ) and n_2 with 16*pi*ECJ/(1+dCJ), each divided by       *)
(* Q_cap(omega) and multiplied by the thermal factor.                      *)
C7_CapacitivePrefactor16Pi == T1Ran("t1_capacitive") => CapacitiveDensities(R(16))

(* C7 amended: the prefactors are 32*pi*ECJ/(1-dCJ) for n_1 and            *)
(* 32*pi*ECJ/(1+dCJ) for n_2 (2*8*ECJ/(1 -+ dCJ), times 2*pi).             *)
C7_CapacitivePrefactor32Pi == T1Ran("t1_capacitive") => CapacitiveDensities(R(32))

C7_Witness ==
    /\ T1Ran("t1_capacitive")
    /\ ~RIsZero(params.dCJ)
    /\ CapacitiveDensities(R(32))

PurcellContribution(c) ==
    LET ev == T1Events(ret)
    IN  /\ Len(ev) = 1
        /\ ev[1].noise_op = n_zeta_operator(params, EFalse).val
        /\ ev[1].spectral_density =
               ClaimedDensity(RMul(c, params.EC),
                              q_cap_fun(call.args.Q, call.env.omega))
        /\ ev[1].get_rate = call.args.get_rate
        /\ PassesCallerArgs(ev[1])
        /\ ret.val = Scalar(IF call.args.get_rate THEN call.env.rate_1
                            ELSE RInv(call.env.rate_1))

(* C8 as stated: t1_purcell has the single contribution of n_zeta with     *)
(* prefactor 16*pi*EC and returns the integrator's result for the          *)
(* caller's own get_rate.                                                  *)
C8_PurcellPrefactor16Pi == T1Ran("t1_purcell") => PurcellContribution(R(16))

(* C8 amended: the same with the prefactor 32*pi*EC (2*8*EC, times 2*pi).  *)
C8_PurcellPrefactor32Pi == T1Ran("t1_purcell") => PurcellContribution(R(32))

C8_Witness ==
    /\ T1Ran("t1_purcell")
    /\ call.args.get_rate = FALSE
    /\ call.env.rate_1 = R(2)
    /\ PurcellContribution(R(32))

(* C9: t1_inductive pairs phi_1 with the prefactor 4*pi*EL/(1-dL) and      *)
(* phi_2 with 4*pi*EL/(1+dL), each divided by Q_ind(omega) and multiplied  *)
(* by the thermal factor.                                                  *)
C9_InductivePrefactors ==
    T1Ran("t1_inductive")
        => LET ev == T1Events(ret)
               q == q_ind_fun(call.args.Q, call.args.T, call.env.omega)
           IN  /\ Len(ev) = 2
               /\ ev[1].noise_op = phi_1_operator(params, EFalse).val
               /\ ev[1].spectral_density =
                      ClaimedDensity(RDiv(RMul(R(4), params.EL),
                                          RSub(R(1), params.dL)), q)
               /\ ev[2].noise_op = phi_2_operator(params, EFalse).val
               /\ ev[2].spectral_density =
                      ClaimedDensity(RDiv(RMul(R(4), params.EL),
                                          RAdd(R(1), params.dL)), q)

C9_Witness ==
    /\ T1Ran("t1_inductive")
    /\ params.dL = Rat(-1, 5)
    /\ T1Events(ret)[2].spectral_density.prefactor = R(5)

EigensysEvents(r) == SelectSeq(r.calcs, LAMBDA e : e.ev = "eigensys")

(* C10: every operator accessor (phi, n_phi, zeta, n_zeta, n_theta,        *)
(* phi_1, phi_2, n_1, n_2 and the three derivative operators) applies the  *)
(* same policy to energy_esys: False returns the native operator           *)
(* unchanged; True computes the eigensystem at truncated_dim and returns   *)
(* a (truncated_dim, truncated_dim) operator; a supplied (evals, evecs)    *)
(* pair computes no eigensystem and returns a (len(evals), len(evals))     *)
(* operator.                                                               *)
C10_UniformBasisPolicy ==
    call.name \in OperatorNames
        => /\ ret.exc = "none"
           /\ CASE call.energy_esys.kind = "False" ->
                      /\ ret.val.basis = "native"
                      /\ EigensysEvents(ret) = <<>>
                      /\ ret.val.shape = <<hilbertdim(params), hilbertdim(params)>>
                 [] call.energy_esys.kind = "True" ->
                      /\ ret.val.basis = "eigen"
                      /\ EigensysEvents(ret) = <<EigensysEvent(params.truncated_dim)>>
                      /\ ret.val.shape = <<params.truncated_dim, params.truncated_dim>>
                 [] call.energy_esys.kind = "esys" ->
                      /\ ret.val.basis = "eigen"
                      /\ EigensysEvents(ret) = <<>>
                      /\ ret.val.esys = call.energy_esys.esys
                      /\ ret.val.shape = <<call.energy_esys.esys.count,
                                           call.energy_esys.esys.count>>

(* What the caller sees of a call: the exception, or the value.            *)
Outcome(r) == [exc |-> r.exc, val |-> r.val]

(* The eigensystem the qubit computes internally at truncated_dim.         *)
InternalEsys == Esys(params.truncated_dim, params)

(* C11: with no parameter write in between, an accessor called with        *)
(* energy_esys=True gives the same result as the same accessor called      *)
(* with the pair (evals, evecs) that is exactly the eigensystem the qubit  *)
(* computes internally at truncated_dim.                                   *)
C11_TrueEqualsInternalPair ==
    call.name \in OperatorNames
        => /\ call.energy_esys = ETrue
                  => Outcome(ret) =
                        Outcome(Accessor(call.name, params, EGiven(InternalEsys)))
           /\ call.energy_esys = EGiven(InternalEsys)
                  => Outcome(ret) = Outcome(Accessor(call.name, params, ETrue))

C11_Witness ==
    /\ call.name = "phi_1_operator"
    /\ call.energy_esys = EGiven(InternalEsys)
    /\ ret.exc = "none"
    /\ ret.val.basis = "eigen"
    /\ ret.val = phi_1_operator(params, ETrue).val

(* C12: hamiltonian(energy_esys) selects its output basis from the         *)
(* argument: False returns the native Hamiltonian, of dimension            *)
(* hilbertdim(); True recomputes the eigensystem internally and returns    *)
(* the diagonal matrix of the eigenvalues, of size truncated_dim; a        *)
(* supplied (evals, evecs) pair returns evecs^dagger H evecs, of the       *)
(* dimension of the supplied eigenvectors.                                 *)
C12_HamiltonianBasis ==
    call.name = "hamiltonian"
        => /\ ret.exc = "none"
           /\ ret.val.op = hamiltonian_native(params).op
           /\ CASE call.energy_esys.kind = "False" ->
                      /\ ret.val.basis = "native"
                      /\ ret.val.shape = <<hilbertdim(params), hilbertdim(params)>>
                      /\ EigensysEvents(ret) = <<>>
                 [] call.energy_esys.kind = "True" ->
                      /\ ret.val.basis = "eigen_diagonal"
                      /\ ret.val.esys = InternalEsys
                      /\ ret.val.shape = <<params.truncated_dim, params.truncated_dim>>
                      /\ EigensysEvents(ret) = <<EigensysEvent(params.truncated_dim)>>
                 [] call.energy_esys.kind = "esys" ->
                      /\ ret.val.basis = "eigen"
                      /\ ret.val.esys = call.energy_esys.esys
                      /\ ret.val.shape = <<call.energy_esys.esys.count,
                                           call.energy_esys.esys.count>>
                      /\ EigensysEvents(ret) = <<>>

C12_Witness ==
    /\ call.name = "hamiltonian"
    /\ call.energy_esys = ETrue
    /\ params.truncated_dim = 2
    /\ ret.val.basis = "eigen_diagonal"
    /\ ret.val.shape = <<2, 2>>

(* An eigensystem read: a call that has the qubit compute its              *)
(* eigensystem.                                                            *)
EigensystemRead(c, r) ==
    /\ c.name \in OperatorNames \cup {"hamiltonian"}
    /\ c.energy_esys = ETrue
    /\ r.exc = "none"

(* C13: every write to a parameter (EJ, ECJ, EL, EC, dCJ, dL, dEJ, flux,   *)
(* ng, ncut, zeta_cut, phi_cut, truncated_dim) signals a                   *)
(* QUANTUMSYSTEM_UPDATE event, and no eigensystem computed before a write  *)
(* is served as current after it: an eigensystem read is served the        *)
(* eigensystem of the parameters as they are at the read.                  *)
C13_WriteSignalsUpdate ==
    [][/\ params' # params => updates' = updates + 1
       /\ EigensystemRead(call', ret')
              => /\ ret'.val.esys = Esys(params'.truncated_dim, params')
                 /\ EigensysEvents(ret') = <<EigensysEvent(params'.truncated_dim)>>]_vars

C13_Witness ==
    /\ updates = 1
    /\ params.flux # default_params.flux
    /\ EigensystemRead(call, ret)
    /\ ret.val.esys.at = params

(* An eigenvalue routine returned.                                         *)
EigenReturned(name) == call.name = name /\ ret.exc = "none"

StrictlyAscending(evals) ==
    \A m \in 1..(Len(evals) - 1) : RLess(evals[m], evals[m + 1])
Ascending(evals) ==
    \A m \in 1..(Len(evals) - 1) : ~RLess(evals[m + 1], evals[m])

(* The result holds the k values the solver returned, each as often.       *)
SameValues(evals, solved) ==
    /\ Len(evals) = Len(solved)
    /\ \A v \in SeqRange(solved) :
           Cardinality({m \in 1..Len(evals) : evals[m] = v})
               = Cardinality({j \in 1..Len(solved) : solved[j] = v})

(* The columns are the solver's columns, permuted so that column m is the  *)
(* eigenvector of eigenvalue m.                                            *)
ColumnsFollow(val, solver) ==
    /\ Len(val.evecs) = Len(solver.evecs)
    /\ SeqRange(val.evecs) = SeqRange(solver.evecs)
    /\ \A m \in 1..Len(val.evecs) : solver.evals[val.evecs[m]] = val.evals[m]

OrderedEigenResult(InOrder(_)) ==
    /\ EigenReturned("_evals_calc")
           => /\ Len(ret.val.evals) = call.evals_count
              /\ SameValues(ret.val.evals, call.solver.evals)
              /\ InOrder(ret.val.evals)
    /\ EigenReturned("_esys_calc")
           => /\ Len(ret.val.evals) = call.evals_count
              /\ SameValues(ret.val.evals, call.solver.evals)
              /\ InOrder(ret.val.evals)
              /\ ColumnsFollow(ret.val, call.solver)

(* C14 as stated: for whatever k values the solver returns, _evals_calc(k) *)
(* and the eigenvalues of _esys_calc(k) are strictly ascending sequences   *)
(* of length k, and the eigenvector columns of _esys_calc are permuted     *)
(* alike, so that column m belongs to eigenvalue m.                        *)
C14_EigenvaluesStrictlyAscending == OrderedEigenResult(StrictlyAscending)

(* C14 amended: the sequences are ascending with equal values allowed      *)
(* (the solver may return an eigenvalue more than once); the rest as       *)
(* stated.                                                                 *)
C14_EigenvaluesAscending == OrderedEigenResult(Ascending)

C14_Witness ==
    /\ EigenReturned("_esys_calc")
    /\ call.solver.evals = <<R(2), R(-1)>>
    /\ ret.val.evals = <<R(-1), R(2)>>
    /\ ret.val.evecs = <<2, 1>>

(* C15: _evals_calc(k) and _esys_calc(k) each invoke the eigensolver       *)
(* exactly once, on the native-basis Hamiltonian, requesting k             *)
(* eigenvalues nearest the shift 0.0; when the solver raises, the error    *)
(* reaches the caller unchanged: no retry, no fallback, no partial result. *)
C15_SolverCalledOnceErrorsPropagate ==
    call.name \in {"_evals_calc", "_esys_calc"}
        => /\ ret.calcs =
                  <<EigshEvent([basis |-> "native",
                                op |-> hamiltonian_native(params).op,
                                esys |-> NoEsys,
                                shape |-> <<hilbertdim(params), hilbertdim(params)>>],
                               call.evals_count, call.name = "_esys_calc",
                               R(0), "LM")>>
           /\ ret.exc = call.solver.exc
           /\ call.solver.exc # "none" => ret.val = NoVal

C15_Witness ==
    /\ call.name = "_evals_calc"
    /\ call.solver.exc = "ArpackNoConvergence"
    /\ ret.exc = "ArpackNoConvergence"
    /\ Len(ret.calcs) = 1

(* A single-subspace operator (or product of such) equals its conjugate    *)
(* transpose: (x1 ... xn)^dagger = xn^dagger ... x1^dagger.                *)
HermitianAtom(a) ==
    LET f == Factors(a)
    IN  \A k \in 1..Len(f) : ConjT(Matrix(f[Len(f) + 1 - k])) = Matrix(f[k])

(* A real combination of Kronecker products of Hermitian matrices.         *)
Hermitian(A) ==
    \A m \in DOMAIN A.terms :
        HermitianAtom(m[2]) /\ HermitianAtom(m[3]) /\ HermitianAtom(m[4])

(* C16: for arbitrary parameters (nonzero dL, dCJ, dEJ, flux and ng        *)
(* included) the native Hamiltonian returned by hamiltonian() is           *)
(* Hermitian, and so is each of its seven terms: phi oscillator, zeta      *)
(* oscillator, cross-kinetic, Josephson, inductive disorder,               *)
(* junction-energy disorder, junction-capacitance disorder.                *)
C16_HamiltonianHermitian ==
    NativeCall("hamiltonian")
        => /\ ret.exc = "none"
           /\ Hermitian(ret.val.op)
           /\ Hermitian(phi_osc_mat(params))
           /\ Hermitian(zeta_osc_mat(params))
           /\ Hermitian(cross_kinetic_mat(params))
           /\ Hermitian(junction_mat(params))
           /\ Hermitian(disorder_l(params))
           /\ Hermitian(disorder_j(params))
           /\ Hermitian(disorder_c(params))

C16_Witness ==
    /\ NativeCall("hamiltonian")
    /\ ~RIsZero(params.dEJ)
    /\ DOMAIN disorder_j(params).terms # {}
    /\ Hermitian(ret.val.op)

(* The single-subspace operators of each subspace.                         *)
PhiOperators == {"I", "num", "phi", "n_phi", "cos_phi", "sin_phi"}
ZetaOperators == {"I", "num", "zeta", "n_zeta"}
ThetaOperators == {"I", "n_theta", "cos_theta", "sin_theta"}

(* Every Kronecker product in the operator has a phi-subspace factor       *)
(* first, a zeta-subspace factor second and a theta-subspace factor last.  *)
KronOrdered(A) ==
    \A m \in DOMAIN A.terms :
        /\ SeqRange(Factors(m[2])) \subseteq PhiOperators
        /\ SeqRange(Factors(m[3])) \subseteq ZetaOperators
        /\ SeqRange(Factors(m[4])) \subseteq ThetaOperators

TotalDimension == params.phi_cut * params.zeta_cut * (2 * params.ncut + 1)

(* C17: for all phi_cut >= 1, zeta_cut >= 1 and ncut >= 0, every           *)
(* native-basis operator returned with energy_esys=False (phi, n_phi,      *)
(* zeta, n_zeta, n_theta, phi_1, phi_2, n_1, n_2, hamiltonian, the three   *)
(* derivative operators, total_identity) is square of dimension            *)
(* hilbertdim() = phi_cut * zeta_cut * (2*ncut+1) and is built as a        *)
(* Kronecker product with operand order (phi, zeta, theta).                *)
C17_NativeOperatorDimension ==
    (/\ call.name \in OperatorNames \cup {"hamiltonian"}
     /\ call.energy_esys = EFalse
     /\ ret.exc = "none")
        => /\ hilbertdim(params) = TotalDimension
           /\ ret.val.basis = "native"
           /\ ret.val.shape = <<TotalDimension, TotalDimension>>
           /\ ret.val.op.dim = TotalDimension
           /\ KronOrdered(ret.val.op)
           /\ total_identity(params).dim = TotalDimension
           /\ DOMAIN total_identity(params).terms = {<<One, "I", "I", "I">>}

C17_Witness ==
    /\ NativeCall("n_theta_operator")
    /\ params.ncut = 0
    /\ ret.val.shape = <<210, 210>>
    /\ DOMAIN ret.val.op.terms = {<<One, "I", "I", "n_theta">>}

(* The parameter values the end-to-end scenario names.                     *)
ScenarioParameters ==
    [EJ |-> R(15), ECJ |-> R(2), EL |-> R(1), EC |-> Rat(4, 100),
     dCJ |-> R(0), dL |-> Rat(6, 10), dEJ |-> R(0), flux |-> Rat(5, 10),
     ng |-> R(0), ncut |-> 7, zeta_cut |-> 30, phi_cut |-> 7,
     truncated_dim |-> 6]

(* The qubit is as the constructor left it.                                *)
AsConstructed == updates = 0

(* C18 as stated: default_params() supplies EJ=15, ECJ=2, EL=1, EC=0.04,   *)
(* dCJ=0, dL=0.6, dEJ=0, flux=0.5, ng=0, ncut=7, zeta_cut=30, phi_cut=7,   *)
(* truncated_dim=6, and a qubit constructed from it has                    *)
(* hilbertdim() = 7*30*15 = 3150.                                          *)
C18_DefaultParamsWithTruncatedDim ==
    AsConstructed
        => /\ default_params = ScenarioParameters
           /\ hilbertdim(params) = 7 * 30 * 15
           /\ hilbertdim(params) = 3150

(* C18 amended: default_params() supplies the twelve values EJ .. phi_cut  *)
(* as stated and no truncated_dim; the qubit constructed from it has       *)
(* truncated_dim = 6 from the constructor's default, and                   *)
(* hilbertdim() = 7*30*15 = 3150.                                          *)
C18_DefaultParamsAndConstructorDefault ==
    AsConstructed
        => /\ DOMAIN default_params = DOMAIN ScenarioParameters \ {"truncated_dim"}
           /\ \A k \in DOMAIN default_params : default_params[k] = ScenarioParameters[k]
           /\ params = ScenarioParameters
           /\ hilbertdim(params) = 7 * 30 * 15
           /\ hilbertdim(params) = 3150

C18_Witness ==
    /\ AsConstructed
    /\ NativeCall("hamiltonian")
    /\ params.truncated_dim = 6
    /\ ret.val.shape = <<3150, 3150>>

(* Sum and scalar multiple of two returned operators of one basis: the     *)
(* change of basis evecs^dagger . evecs is linear.                         *)
SameBasis(x, y) == x.basis = y.basis /\ x.esys = y.esys /\ x.shape = y.shape
ValAdd(x, y) == [x EXCEPT !.op = OpAdd(x.op, y.op)]
ValScale(c, x) == [x EXCEPT !.op = OpScale(c, x.op)]

(* C19: for every parameter set and in every basis selected by             *)
(* energy_esys (the same value passed to all three accessors),             *)
(* n_1_operator() + n_2_operator() equals n_phi_operator().                *)
C19_N1PlusN2IsNPhi ==
    call.name = "n_phi_operator"
        => LET n_1 == n_1_operator(params, call.energy_esys)
               n_2 == n_2_operator(params, call.energy_esys)
           IN  /\ ret.exc = "none" /\ n_1.exc = "none" /\ n_2.exc = "none"
               /\ SameBasis(n_1.val, n_2.val)
               /\ ValAdd(n_1.val, n_2.val) = ret.val

C19_Witness ==
    /\ call.name = "n_phi_operator"
    /\ call.energy_esys = ETrue
    /\ ~RIsZero(params.ng)
    /\ ret.val.basis = "eigen"
    /\ ValAdd(n_1_operator(params, ETrue).val, n_2_operator(params, ETrue).val)
           = ret.val

(* C20: for every parameter set and in every basis selected by             *)
(* energy_esys (the same value passed to all three accessors),             *)
(* phi_1_operator() + phi_2_operator() equals -2 * phi_operator().         *)
C20_Phi1PlusPhi2IsMinus2Phi ==
    call.name = "phi_operator"
        => LET phi_1 == phi_1_operator(params, call.energy_esys)
               phi_2 == phi_2_operator(params, call.energy_esys)
           IN  /\ ret.exc = "none" /\ phi_1.exc = "none" /\ phi_2.exc = "none"
               /\ SameBasis(phi_1.val, phi_2.val)
               /\ ValAdd(phi_1.val, phi_2.val) = ValScale(R(-2), ret.val)

C20_Witness ==
    /\ call.name = "phi_operator"
    /\ call.energy_esys.kind = "esys"
    /\ params.dL = Rat(-1, 5)
    /\ ret.val.basis = "eigen"
    /\ DOMAIN ValScale(R(-2), ret.val).op.terms = {<<One, "phi", "I", "I">>}

(* The phase and charge operators and their commutator [phase, charge],    *)
(* for every dimension d a subspace of the qubit can have.                 *)
Commutator(A, B) == DSub(DMul(A, B), DMul(B, A))
SubspaceDimensions == ParamValues.phi_cut \cup ParamValues.zeta_cut
PhaseChargePairs ==
    {[d |-> d, phase |-> _phi_entries(d), charge |-> _n_phi_entries(d),
      commutator |-> Commutator(_phi_entries(d), _n_phi_entries(d))] :
        d \in SubspaceDimensions}
PhaseCharge(d) == CHOOSE pair \in PhaseChargePairs : pair.d = d

(* The returned matrix is the phase or the charge operator of the pair.    *)
ReturnedOfPair(pair) ==
    ret.val.matrix = IF call.name \in {"_phi_operator", "_zeta_operator"}
                     THEN pair.phase ELSE pair.charge

(* C21: for every subspace dimension d >= 1 and every positive oscillator  *)
(* strength, the commutator [phase, charge] of the truncated phi operators *)
(* and of the truncated zeta operators is i times the identity of the      *)
(* d-dimensional subspace: every diagonal entry is i, every off-diagonal   *)
(* entry is 0.                                                             *)
C21_CommutatorIsITimesIdentity ==
    call.name \in SubspaceOperators
        => LET d == SubspaceDimension(call.name, params)
               pair == PhaseCharge(d)
           IN  /\ ReturnedOfPair(pair)
               /\ pair.commutator
                      = Entries(d, {<<r, r, Num(CImag)>> : r \in 0 .. d - 1})

(* C21, as the code has it: the commutator is diagonal, with i on every    *)
(* diagonal entry but the last and -(d - 1) i on the last (for d = 1 the   *)
(* single entry is 0).                                                     *)
C21_CommutatorUpToTruncation ==
    call.name \in SubspaceOperators
        => LET d == SubspaceDimension(call.name, params)
               pair == PhaseCharge(d)
           IN  /\ ReturnedOfPair(pair)
               /\ pair.commutator
                      = Entries(d, {<<r, r, IF r < d - 1 THEN Num(CImag)
                                            ELSE Num(CMul(CReal(R(-(d - 1))), CImag))>> :
                                       r \in 0 .. d - 1})

C21_Witness ==
    /\ call.name = "_n_zeta_operator"
    /\ _dim_zeta(params) = 30
    /\ LET pair == PhaseCharge(30)
       IN  /\ ReturnedOfPair(pair)
           /\ At(pair.commutator, 0, 0) = Num(CImag)
           /\ At(pair.commutator, 29, 29) = Num(<<R(0), R(-29)>>)
           /\ At(pair.commutator, 0, 2) = NumZero

(* operators.py: the matrix a call of one of its functions returned.       *)
Returned(fn) ==
    /\ call.name = fn
    /\ ret.exc = "none"
    /\ ret.val.basis = "matrix"

(* C22: for every positive integer dim (dim = 1 included), annihilation    *)
(* (dim) is a dim x dim matrix whose only nonzero entries are at           *)
(* (r, r+1) with value sqrt(r+1) for r = 0..dim-2, and creation(dim) is    *)
(* its transpose.                                                          *)
C22_DenseLadderEntries ==
    /\ call.name \in {"annihilation", "creation"} => ret.exc = "none"
    /\ Returned("annihilation")
           => /\ ret.val.matrix.dim = call.dimension
              /\ \A ix \in Indices(call.dimension) :
                     At(ret.val.matrix, ix[1], ix[2])
                         = IF ix[2] = ix[1] + 1 THEN np_sqrt(ix[1] + 1)
                           ELSE NumZero
    /\ Returned("creation")
           => /\ ret.val.matrix.dim = call.dimension
              /\ \A ix \in Indices(call.dimension) :
                     At(ret.val.matrix, ix[1], ix[2])
                         = At(annihilation(call.dimension), ix[2], ix[1])

C22_Witness ==
    /\ Returned("annihilation")
    /\ call.dimension = 1
    /\ ret.val.matrix = [dim |-> 1, nz |-> {}]

(* C23: number(dim, prefactor) and number_sparse(dim, prefactor) return    *)
(* the dim x dim diagonal matrix with entries prefactor*0, prefactor*1,    *)
(* ..., prefactor*(dim-1) for every supplied prefactor, prefactor = 0      *)
(* included, and the entries 0, 1, ..., dim-1 when no prefactor is         *)
(* supplied.                                                               *)
C23_NumberScaledByPrefactor ==
    Returned("number") \/ Returned("number_sparse")
        => /\ ret.val.matrix.dim = call.dimension
           /\ \A ix \in Indices(call.dimension) :
                  At(ret.val.matrix, ix[1], ix[2])
                      = IF ix[1] # ix[2] THEN NumZero
                        ELSE IF call.prefactor.kind = "None"
                        THEN Num(CReal(R(ix[1])))
                        ELSE Num(CReal(RMul(call.prefactor.value, R(ix[1]))))

(* C30: for every positive integer dim, annihilation_sparse(dim) has       *)
(* exactly the entries of the dense annihilation(dim) (sqrt(c) at row      *)
(* c-1, column c for c = 1..dim-1, zero elsewhere), and creation_sparse    *)
(* (dim) has exactly the entries of creation(dim).                         *)
C30_SparseLadderEqualsDense ==
    /\ call.name \in {"annihilation_sparse", "creation_sparse"}
           => ret.exc = "none"
    /\ Returned("annihilation_sparse")
           => /\ ret.val.matrix = annihilation(call.dimension)
              /\ \A ix \in Indices(call.dimension) :
                     At(ret.val.matrix, ix[1], ix[2])
                         = IF ix[1] = ix[2] - 1 THEN np_sqrt(ix[2]) ELSE NumZero
    /\ Returned("creation_sparse")
           => ret.val.matrix = creation(call.dimension)

C30_Witness ==
    /\ Returned("annihilation_sparse")
    /\ call.dimension = 3
    /\ ret.val.matrix = annihilation(3)
    /\ At(ret.val.matrix, 1, 2) = np_sqrt(2)
    /\ At(ret.val.matrix, 0, 1) = Num(CReal(R(1)))

(* The quality factor functions the integrator was handed in this call.    *)
QualityFactors == {e.spectral_density.q : e \in SeqRange(T1Events(ret))}

(* C27: in t1_inductive (Q_ind) and in t1_capacitive / t1_purcell (Q_cap)  *)
(* the quality factor is chosen by a three-way dispatch: None selects the  *)
(* built-in default model; a callable is used as given and applied to      *)
(* omega; any other value, the number 0 included, is a constant returned   *)
(* for every omega.                                                        *)
C27_QualityFactorDispatch ==
    call.name \in T1Channels /\ ret.exc # "RuntimeError"
        => /\ QualityFactors # {}
           /\ \A q \in QualityFactors :
                  CASE call.args.Q.kind = "None" ->
                          /\ q.model = IF call.name = "t1_inductive"
                                       THEN "default_q_ind" ELSE "default_q_cap"
                          /\ q.omega = call.env.omega
                    [] call.args.Q.kind = "callable" ->
                          /\ q.model = IF call.name = "t1_inductive"
                                       THEN "Q_ind(omega)" ELSE "Q_cap(omega)"
                          /\ q.omega = call.env.omega
                    [] OTHER ->
                          /\ q.model = "constant"
                          /\ q.value = call.args.Q.value

C27_Witness ==
    /\ call.name = "t1_purcell"
    /\ call.args.Q = QNumber(R(0))
    /\ QualityFactors
           = {[model |-> "constant", omega |-> R(0), T |-> R(0), value |-> R(0)]}
    /\ ret.exc = "ZeroDivisionError"

(* wavefunction() was called and returned.                                 *)
WavefunctionReturned == call.name = "wavefunction" /\ ret.exc = "none"
HO(n, grid, l_osc) ==
    [fn |-> "harm_osc_wavefunction", n |-> n, x |-> grid, l_osc |-> l_osc]
Planewave(n, grid) == [fn |-> "exp(-1j*n*x)/sqrt(2*pi)", n |-> n, x |-> grid]

(* C24: for an eigenvector whose only nonzero basis amplitude is 1 at      *)
(* indices (i, j, k) = (0, 0, 0), wavefunction() returns exactly           *)
(* HO(0, phi grid, phi_osc) (x) HO(0, zeta grid, zeta_osc) (x)             *)
(* planewave(-ncut, theta grid); in general the basis amplitude at theta   *)
(* index k multiplies the plane wave exp(-i*(k-ncut)*theta)/sqrt(2*pi) of  *)
(* charge label k - ncut.                                                  *)
C24_WavefunctionOfBasisState ==
    WavefunctionReturned
        => LET g == ret.val.gridspec
               dim_theta == 2 * params.ncut + 1
           IN  /\ ret.val.column.nz = {<<0, CReal(R(1))>>}
                      => ret.val.amplitudes
                             = {[amplitude |-> CReal(R(1)),
                                 phi |-> HO(0, g.phi, "phi_osc"),
                                 zeta |-> HO(0, g.zeta, "zeta_osc"),
                                 theta |-> Planewave(-params.ncut, g.theta)]}
               /\ \A e \in ret.val.column.nz :
                      \E t \in ret.val.amplitudes :
                          /\ t.amplitude = e[2]
                          /\ t.theta = Planewave((e[1] % dim_theta) - params.ncut,
                                                 g.theta)
               /\ Cardinality(ret.val.amplitudes) = Cardinality(ret.val.column.nz)

C24_Witness ==
    /\ WavefunctionReturned
    /\ params.ncut = 7
    /\ ret.val.column.nz = {<<0, CReal(R(1))>>}
    /\ ret.val.amplitudes
           = {[amplitude |-> CReal(R(1)),
               phi |-> HO(0, "_default_phi_grid", "phi_osc"),
               zeta |-> HO(0, "_default_zeta_grid", "zeta_osc"),
               theta |-> Planewave(-7, "_default_theta_grid")]}

(* C26: wavefunction(esys=None, which=w) with w >= 0 requests exactly      *)
(* max(w+1, 3) eigenstates from the eigensystem computation, so at least   *)
(* 3 are always requested and column w always exists; with a supplied      *)
(* esys it performs no eigensystem computation and reads column w of the   *)
(* supplied eigenvectors.                                                  *)
C26_WavefunctionEigenstateCount ==
    call.name = "wavefunction"
        => LET w == call.args.which
               requested == IF w + 1 >= 3 THEN w + 1 ELSE 3
           IN  IF call.args.esys.kind = "None"
               THEN /\ EigensysEvents(ret) = <<EigensysEvent(requested)>>
                    /\ requested >= 3 /\ requested > w
                    /\ ret.exc = "none"
                    /\ ret.val.column = call.evecs[w + 1]
               ELSE /\ EigensysEvents(ret) = <<>>
                    /\ w < Len(call.evecs)
                           => ret.exc = "none" /\ ret.val.column = call.evecs[w + 1]

C26_Witness ==
    /\ call.name = "wavefunction"
    /\ call.args.esys.kind = "None"
    /\ call.args.which = 3
    /\ EigensysEvents(ret) = <<EigensysEvent(4)>>
    /\ ret.val.column = call.evecs[4]

(* The shapes (dim_phi, dim_zeta, dim_theta) the qubit can have, and for   *)
(* each whether the reshape of wavefunction() and the rows of _kron3       *)
(* agree on every basis state.                                             *)
Shapes ==
    ParamValues.phi_cut \X ParamValues.zeta_cut
        \X {2 * ncut + 1 : ncut \in ParamValues.ncut}
IndexMapsAgree(shape) ==
    LET States == (0 .. shape[1] - 1) \X (0 .. shape[2] - 1) \X (0 .. shape[3] - 1)
    IN  /\ \A t \in States :
               /\ _kron3_index(t[1], t[2], t[3], shape)
                      = (t[1] * shape[2] + t[2]) * shape[3] + t[3]
               /\ reshape_index(_kron3_index(t[1], t[2], t[3], shape), shape) = t
        /\ {_kron3_index(t[1], t[2], t[3], shape) : t \in States}
               = 0 .. shape[1] * shape[2] * shape[3] - 1
        /\ Cardinality(States) = shape[1] * shape[2] * shape[3]
AgreeingShapes == {shape \in Shapes : IndexMapsAgree(shape)}

(* C28: the index mapping wavefunction() uses to reshape an eigenvector    *)
(* into (phi index i, zeta index j, theta index k) is the one induced by   *)
(* _kron3 with operand order (phi, zeta, theta): component                 *)
(* (i*zeta_cut + j)*(2*ncut+1) + k of a native-basis vector is the         *)
(* amplitude of basis state (i, j, k), and the mapping is a bijection      *)
(* onto 0..hilbertdim()-1.                                                 *)
C28_ReshapeMatchesKron3 ==
    WavefunctionReturned
        => LET shape == <<_dim_phi(params), _dim_zeta(params), _dim_theta(params)>>
           IN  /\ shape \in AgreeingShapes
               /\ shape[1] * shape[2] * shape[3] = hilbertdim(params)
               /\ \A t \in ret.val.amplitudes :
                      \E e \in ret.val.column.nz :
                          /\ e[2] = t.amplitude
                          /\ e[1] = _kron3_index(t.phi.n, t.zeta.n,
                                                 t.theta.n + params.ncut, shape)

C28_Witness ==
    /\ WavefunctionReturned
    /\ hilbertdim(params) = 3150
    /\ ret.val.column.nz = {<<3149, CReal(R(1))>>}
    /\ \E t \in ret.val.amplitudes :
           t.phi.n = 6 /\ t.zeta.n = 29 /\ t.theta.n = 7

(* The queries of the qubit.                                               *)
QueryNames ==
    OperatorNames
        \cup {"hamiltonian", "potential", "reduced_potential", "wavefunction"}
        \cup T1Channels

(* C25: no call to hamiltonian(), an operator accessor, a derivative       *)
(* operator, potential(), reduced_potential(), wavefunction() or a t1_*    *)
(* method, with any energy_esys / esys argument, changes a parameter or    *)
(* emits a parameter-update event: the parameters are after the call what  *)
(* they were before it.                                                    *)
C25_QueriesLeaveParameters ==
    [][call = Idle /\ call'.name \in QueryNames
           => params' = params /\ updates' = updates]_vars

C25_Witness ==
    /\ call.name = "wavefunction"
    /\ call.args.esys.kind = "None"
    /\ ret.exc = "none"
    /\ updates = 1
    /\ params = [Construct(default_params) EXCEPT !.truncated_dim = 2]

(* C29: a call to hamiltonian(energy_esys=True) or to any operator         *)
(* accessor with energy_esys=True terminates and performs exactly one      *)
(* eigensystem computation: every nested accessor or hamiltonian() call    *)
(* made while assembling the native operator is made with                  *)
(* energy_esys=False.                                                      *)
C29_OneEigensystemComputation ==
    /\ call.name \in OperatorNames \cup {"hamiltonian"}
    /\ call.energy_esys.kind = "True"
    => /\ ret.exc = "none"
       /\ Len(EigensysEvents(ret)) = 1

====
